---------------------------- MODULE Spec2Model ----------------------------
(***************************************************************************)
(* AMB Dynamic Energy (Home Assistant integration).                        *)
(*                                                                         *)
(*   coordinator.py : AMBDataUpdateCoordinator - the two-tier retry of the *)
(*                    fetch, the processing of the payload, the schedule   *)
(*                    helpers of the coordinator.                          *)
(*   sensor.py      : AMBCurrentPriceSensor, AMBCurrentDurationSensor -    *)
(*                    the values computed at read time from the snapshot.  *)
(*                                                                         *)
(* Python text (hour ranges, time tokens, the price labels of periods) is  *)
(* a sequence of one-character strings, so that split(), int() and upper() *)
(* are computed, not assumed.  Dates and the top-level current_price are   *)
(* only compared and are atomic strings.  A Python value handed to         *)
(* _time_to_minutes is tagged with its type; a call's outcome is a value   *)
(* or a raised exception.                                                  *)
(***************************************************************************)
EXTENDS Integers, Sequences, FiniteSets, TLC

VARIABLES
    data,                  \* coordinator.data: None or the published snapshot
    last_update_success,   \* DataUpdateCoordinator.last_update_success
    now,                   \* dt_util.now(): [day, minute]
    pc,                    \* position of the refresh task; in the set-up
                           \* form, of the step of each flow
    attempt,               \* loop variable of the tier being run
    calls,                 \* number of _fetch_data calls of this refresh
    hist,                  \* what each of those calls did
    sleeps,                \* the sleeps of this refresh, in order
    ret,                   \* how _async_update_data ended
    retry_count,           \* self._retry_count
    extended_retry_count,  \* self._extended_retry_count
    src,                   \* what the input was built from (history)
    arg,                   \* the argument of a direct call; the read
                           \* before the last one; in the set-up form, the
                           \* user_input of the step of each flow
    out,                   \* the result of the last read, call or flow step
    entry,                 \* the config entry: its data and its options
    api_url,               \* coordinator.api_url
    update_interval,       \* coordinator.update_interval, in seconds
    building               \* the coordinator async_setup_entry has built
                           \* and not yet stored, or None

vars == <<data, last_update_success, now, pc, attempt, calls, hist, sleeps,
          ret, retry_count, extended_retry_count, src, arg, out, entry,
          api_url, update_interval, building>>

\* what the reads and the refresh leave alone
setup == <<entry, api_url, update_interval, building>>

---------------------------------------------------------------------------
(* Python values and outcomes *)

None == [t |-> "NoneType"]

PyStr(s) == [t |-> "str", s |-> s]

PyInt(n) == [t |-> "int", n |-> n]

PyBool(b) == [t |-> "bool", b |-> b]

Ok(v) == [tag |-> "ok", v |-> v]

Raise(e) == [tag |-> "raise", exc |-> e]

NoOut == [op |-> "none"]

NoSrc == [kind |-> "none"]

\* `v` bound to a name once: k(v)
Let(v, k(_)) == k(v)

\* `not d` for coordinator.data: None or a dict without keys
Falsy(d) == DOMAIN d = {} \/ d = None

---------------------------------------------------------------------------
(* str.split, the `in` test on text, int() *)

Digits == <<"0", "1", "2", "3", "4", "5", "6", "7", "8", "9">>

\* A character outside printable ASCII is written by its code point,
\* "<U+00A0>", upper-case hexadecimal of four digits or more; tab, newline,
\* form feed and carriage return are "\t", "\n", "\f", "\r".

\* the decimal digits int() reads: the ten digits of every script, each
\* block in the order 0..9
DigitBlocks ==
    <<<<"0", "1", "2", "3", "4",
        "5", "6", "7", "8", "9">>,
      <<"<U+0660>", "<U+0661>", "<U+0662>", "<U+0663>", "<U+0664>",
        "<U+0665>", "<U+0666>", "<U+0667>", "<U+0668>", "<U+0669>">>,
      <<"<U+06F0>", "<U+06F1>", "<U+06F2>", "<U+06F3>", "<U+06F4>",
        "<U+06F5>", "<U+06F6>", "<U+06F7>", "<U+06F8>", "<U+06F9>">>,
      <<"<U+07C0>", "<U+07C1>", "<U+07C2>", "<U+07C3>", "<U+07C4>",
        "<U+07C5>", "<U+07C6>", "<U+07C7>", "<U+07C8>", "<U+07C9>">>,
      <<"<U+0966>", "<U+0967>", "<U+0968>", "<U+0969>", "<U+096A>",
        "<U+096B>", "<U+096C>", "<U+096D>", "<U+096E>", "<U+096F>">>,
      <<"<U+09E6>", "<U+09E7>", "<U+09E8>", "<U+09E9>", "<U+09EA>",
        "<U+09EB>", "<U+09EC>", "<U+09ED>", "<U+09EE>", "<U+09EF>">>,
      <<"<U+0A66>", "<U+0A67>", "<U+0A68>", "<U+0A69>", "<U+0A6A>",
        "<U+0A6B>", "<U+0A6C>", "<U+0A6D>", "<U+0A6E>", "<U+0A6F>">>,
      <<"<U+0AE6>", "<U+0AE7>", "<U+0AE8>", "<U+0AE9>", "<U+0AEA>",
        "<U+0AEB>", "<U+0AEC>", "<U+0AED>", "<U+0AEE>", "<U+0AEF>">>,
      <<"<U+0B66>", "<U+0B67>", "<U+0B68>", "<U+0B69>", "<U+0B6A>",
        "<U+0B6B>", "<U+0B6C>", "<U+0B6D>", "<U+0B6E>", "<U+0B6F>">>,
      <<"<U+0BE6>", "<U+0BE7>", "<U+0BE8>", "<U+0BE9>", "<U+0BEA>",
        "<U+0BEB>", "<U+0BEC>", "<U+0BED>", "<U+0BEE>", "<U+0BEF>">>,
      <<"<U+0C66>", "<U+0C67>", "<U+0C68>", "<U+0C69>", "<U+0C6A>",
        "<U+0C6B>", "<U+0C6C>", "<U+0C6D>", "<U+0C6E>", "<U+0C6F>">>,
      <<"<U+0CE6>", "<U+0CE7>", "<U+0CE8>", "<U+0CE9>", "<U+0CEA>",
        "<U+0CEB>", "<U+0CEC>", "<U+0CED>", "<U+0CEE>", "<U+0CEF>">>,
      <<"<U+0D66>", "<U+0D67>", "<U+0D68>", "<U+0D69>", "<U+0D6A>",
        "<U+0D6B>", "<U+0D6C>", "<U+0D6D>", "<U+0D6E>", "<U+0D6F>">>,
      <<"<U+0DE6>", "<U+0DE7>", "<U+0DE8>", "<U+0DE9>", "<U+0DEA>",
        "<U+0DEB>", "<U+0DEC>", "<U+0DED>", "<U+0DEE>", "<U+0DEF>">>,
      <<"<U+0E50>", "<U+0E51>", "<U+0E52>", "<U+0E53>", "<U+0E54>",
        "<U+0E55>", "<U+0E56>", "<U+0E57>", "<U+0E58>", "<U+0E59>">>,
      <<"<U+0ED0>", "<U+0ED1>", "<U+0ED2>", "<U+0ED3>", "<U+0ED4>",
        "<U+0ED5>", "<U+0ED6>", "<U+0ED7>", "<U+0ED8>", "<U+0ED9>">>,
      <<"<U+0F20>", "<U+0F21>", "<U+0F22>", "<U+0F23>", "<U+0F24>",
        "<U+0F25>", "<U+0F26>", "<U+0F27>", "<U+0F28>", "<U+0F29>">>,
      <<"<U+1040>", "<U+1041>", "<U+1042>", "<U+1043>", "<U+1044>",
        "<U+1045>", "<U+1046>", "<U+1047>", "<U+1048>", "<U+1049>">>,
      <<"<U+1090>", "<U+1091>", "<U+1092>", "<U+1093>", "<U+1094>",
        "<U+1095>", "<U+1096>", "<U+1097>", "<U+1098>", "<U+1099>">>,
      <<"<U+17E0>", "<U+17E1>", "<U+17E2>", "<U+17E3>", "<U+17E4>",
        "<U+17E5>", "<U+17E6>", "<U+17E7>", "<U+17E8>", "<U+17E9>">>,
      <<"<U+1810>", "<U+1811>", "<U+1812>", "<U+1813>", "<U+1814>",
        "<U+1815>", "<U+1816>", "<U+1817>", "<U+1818>", "<U+1819>">>,
      <<"<U+1946>", "<U+1947>", "<U+1948>", "<U+1949>", "<U+194A>",
        "<U+194B>", "<U+194C>", "<U+194D>", "<U+194E>", "<U+194F>">>,
      <<"<U+19D0>", "<U+19D1>", "<U+19D2>", "<U+19D3>", "<U+19D4>",
        "<U+19D5>", "<U+19D6>", "<U+19D7>", "<U+19D8>", "<U+19D9>">>,
      <<"<U+1A80>", "<U+1A81>", "<U+1A82>", "<U+1A83>", "<U+1A84>",
        "<U+1A85>", "<U+1A86>", "<U+1A87>", "<U+1A88>", "<U+1A89>">>,
      <<"<U+1A90>", "<U+1A91>", "<U+1A92>", "<U+1A93>", "<U+1A94>",
        "<U+1A95>", "<U+1A96>", "<U+1A97>", "<U+1A98>", "<U+1A99>">>,
      <<"<U+1B50>", "<U+1B51>", "<U+1B52>", "<U+1B53>", "<U+1B54>",
        "<U+1B55>", "<U+1B56>", "<U+1B57>", "<U+1B58>", "<U+1B59>">>,
      <<"<U+1BB0>", "<U+1BB1>", "<U+1BB2>", "<U+1BB3>", "<U+1BB4>",
        "<U+1BB5>", "<U+1BB6>", "<U+1BB7>", "<U+1BB8>", "<U+1BB9>">>,
      <<"<U+1C40>", "<U+1C41>", "<U+1C42>", "<U+1C43>", "<U+1C44>",
        "<U+1C45>", "<U+1C46>", "<U+1C47>", "<U+1C48>", "<U+1C49>">>,
      <<"<U+1C50>", "<U+1C51>", "<U+1C52>", "<U+1C53>", "<U+1C54>",
        "<U+1C55>", "<U+1C56>", "<U+1C57>", "<U+1C58>", "<U+1C59>">>,
      <<"<U+A620>", "<U+A621>", "<U+A622>", "<U+A623>", "<U+A624>",
        "<U+A625>", "<U+A626>", "<U+A627>", "<U+A628>", "<U+A629>">>,
      <<"<U+A8D0>", "<U+A8D1>", "<U+A8D2>", "<U+A8D3>", "<U+A8D4>",
        "<U+A8D5>", "<U+A8D6>", "<U+A8D7>", "<U+A8D8>", "<U+A8D9>">>,
      <<"<U+A900>", "<U+A901>", "<U+A902>", "<U+A903>", "<U+A904>",
        "<U+A905>", "<U+A906>", "<U+A907>", "<U+A908>", "<U+A909>">>,
      <<"<U+A9D0>", "<U+A9D1>", "<U+A9D2>", "<U+A9D3>", "<U+A9D4>",
        "<U+A9D5>", "<U+A9D6>", "<U+A9D7>", "<U+A9D8>", "<U+A9D9>">>,
      <<"<U+A9F0>", "<U+A9F1>", "<U+A9F2>", "<U+A9F3>", "<U+A9F4>",
        "<U+A9F5>", "<U+A9F6>", "<U+A9F7>", "<U+A9F8>", "<U+A9F9>">>,
      <<"<U+AA50>", "<U+AA51>", "<U+AA52>", "<U+AA53>", "<U+AA54>",
        "<U+AA55>", "<U+AA56>", "<U+AA57>", "<U+AA58>", "<U+AA59>">>,
      <<"<U+ABF0>", "<U+ABF1>", "<U+ABF2>", "<U+ABF3>", "<U+ABF4>",
        "<U+ABF5>", "<U+ABF6>", "<U+ABF7>", "<U+ABF8>", "<U+ABF9>">>,
      <<"<U+FF10>", "<U+FF11>", "<U+FF12>", "<U+FF13>", "<U+FF14>",
        "<U+FF15>", "<U+FF16>", "<U+FF17>", "<U+FF18>", "<U+FF19>">>,
      <<"<U+104A0>", "<U+104A1>", "<U+104A2>", "<U+104A3>", "<U+104A4>",
        "<U+104A5>", "<U+104A6>", "<U+104A7>", "<U+104A8>", "<U+104A9>">>,
      <<"<U+10D30>", "<U+10D31>", "<U+10D32>", "<U+10D33>", "<U+10D34>",
        "<U+10D35>", "<U+10D36>", "<U+10D37>", "<U+10D38>", "<U+10D39>">>,
      <<"<U+11066>", "<U+11067>", "<U+11068>", "<U+11069>", "<U+1106A>",
        "<U+1106B>", "<U+1106C>", "<U+1106D>", "<U+1106E>", "<U+1106F>">>,
      <<"<U+110F0>", "<U+110F1>", "<U+110F2>", "<U+110F3>", "<U+110F4>",
        "<U+110F5>", "<U+110F6>", "<U+110F7>", "<U+110F8>", "<U+110F9>">>,
      <<"<U+11136>", "<U+11137>", "<U+11138>", "<U+11139>", "<U+1113A>",
        "<U+1113B>", "<U+1113C>", "<U+1113D>", "<U+1113E>", "<U+1113F>">>,
      <<"<U+111D0>", "<U+111D1>", "<U+111D2>", "<U+111D3>", "<U+111D4>",
        "<U+111D5>", "<U+111D6>", "<U+111D7>", "<U+111D8>", "<U+111D9>">>,
      <<"<U+112F0>", "<U+112F1>", "<U+112F2>", "<U+112F3>", "<U+112F4>",
        "<U+112F5>", "<U+112F6>", "<U+112F7>", "<U+112F8>", "<U+112F9>">>,
      <<"<U+11450>", "<U+11451>", "<U+11452>", "<U+11453>", "<U+11454>",
        "<U+11455>", "<U+11456>", "<U+11457>", "<U+11458>", "<U+11459>">>,
      <<"<U+114D0>", "<U+114D1>", "<U+114D2>", "<U+114D3>", "<U+114D4>",
        "<U+114D5>", "<U+114D6>", "<U+114D7>", "<U+114D8>", "<U+114D9>">>,
      <<"<U+11650>", "<U+11651>", "<U+11652>", "<U+11653>", "<U+11654>",
        "<U+11655>", "<U+11656>", "<U+11657>", "<U+11658>", "<U+11659>">>,
      <<"<U+116C0>", "<U+116C1>", "<U+116C2>", "<U+116C3>", "<U+116C4>",
        "<U+116C5>", "<U+116C6>", "<U+116C7>", "<U+116C8>", "<U+116C9>">>,
      <<"<U+11730>", "<U+11731>", "<U+11732>", "<U+11733>", "<U+11734>",
        "<U+11735>", "<U+11736>", "<U+11737>", "<U+11738>", "<U+11739>">>,
      <<"<U+118E0>", "<U+118E1>", "<U+118E2>", "<U+118E3>", "<U+118E4>",
        "<U+118E5>", "<U+118E6>", "<U+118E7>", "<U+118E8>", "<U+118E9>">>,
      <<"<U+11950>", "<U+11951>", "<U+11952>", "<U+11953>", "<U+11954>",
        "<U+11955>", "<U+11956>", "<U+11957>", "<U+11958>", "<U+11959>">>,
      <<"<U+11C50>", "<U+11C51>", "<U+11C52>", "<U+11C53>", "<U+11C54>",
        "<U+11C55>", "<U+11C56>", "<U+11C57>", "<U+11C58>", "<U+11C59>">>,
      <<"<U+11D50>", "<U+11D51>", "<U+11D52>", "<U+11D53>", "<U+11D54>",
        "<U+11D55>", "<U+11D56>", "<U+11D57>", "<U+11D58>", "<U+11D59>">>,
      <<"<U+11DA0>", "<U+11DA1>", "<U+11DA2>", "<U+11DA3>", "<U+11DA4>",
        "<U+11DA5>", "<U+11DA6>", "<U+11DA7>", "<U+11DA8>", "<U+11DA9>">>,
      <<"<U+16A60>", "<U+16A61>", "<U+16A62>", "<U+16A63>", "<U+16A64>",
        "<U+16A65>", "<U+16A66>", "<U+16A67>", "<U+16A68>", "<U+16A69>">>,
      <<"<U+16AC0>", "<U+16AC1>", "<U+16AC2>", "<U+16AC3>", "<U+16AC4>",
        "<U+16AC5>", "<U+16AC6>", "<U+16AC7>", "<U+16AC8>", "<U+16AC9>">>,
      <<"<U+16B50>", "<U+16B51>", "<U+16B52>", "<U+16B53>", "<U+16B54>",
        "<U+16B55>", "<U+16B56>", "<U+16B57>", "<U+16B58>", "<U+16B59>">>,
      <<"<U+1D7CE>", "<U+1D7CF>", "<U+1D7D0>", "<U+1D7D1>", "<U+1D7D2>",
        "<U+1D7D3>", "<U+1D7D4>", "<U+1D7D5>", "<U+1D7D6>", "<U+1D7D7>">>,
      <<"<U+1D7D8>", "<U+1D7D9>", "<U+1D7DA>", "<U+1D7DB>", "<U+1D7DC>",
        "<U+1D7DD>", "<U+1D7DE>", "<U+1D7DF>", "<U+1D7E0>", "<U+1D7E1>">>,
      <<"<U+1D7E2>", "<U+1D7E3>", "<U+1D7E4>", "<U+1D7E5>", "<U+1D7E6>",
        "<U+1D7E7>", "<U+1D7E8>", "<U+1D7E9>", "<U+1D7EA>", "<U+1D7EB>">>,
      <<"<U+1D7EC>", "<U+1D7ED>", "<U+1D7EE>", "<U+1D7EF>", "<U+1D7F0>",
        "<U+1D7F1>", "<U+1D7F2>", "<U+1D7F3>", "<U+1D7F4>", "<U+1D7F5>">>,
      <<"<U+1D7F6>", "<U+1D7F7>", "<U+1D7F8>", "<U+1D7F9>", "<U+1D7FA>",
        "<U+1D7FB>", "<U+1D7FC>", "<U+1D7FD>", "<U+1D7FE>", "<U+1D7FF>">>,
      <<"<U+1E140>", "<U+1E141>", "<U+1E142>", "<U+1E143>", "<U+1E144>",
        "<U+1E145>", "<U+1E146>", "<U+1E147>", "<U+1E148>", "<U+1E149>">>,
      <<"<U+1E2F0>", "<U+1E2F1>", "<U+1E2F2>", "<U+1E2F3>", "<U+1E2F4>",
        "<U+1E2F5>", "<U+1E2F6>", "<U+1E2F7>", "<U+1E2F8>", "<U+1E2F9>">>,
      <<"<U+1E950>", "<U+1E951>", "<U+1E952>", "<U+1E953>", "<U+1E954>",
        "<U+1E955>", "<U+1E956>", "<U+1E957>", "<U+1E958>", "<U+1E959>">>,
      <<"<U+1FBF0>", "<U+1FBF1>", "<U+1FBF2>", "<U+1FBF3>", "<U+1FBF4>",
        "<U+1FBF5>", "<U+1FBF6>", "<U+1FBF7>", "<U+1FBF8>", "<U+1FBF9>">>>>

DigitValues ==
    [c \in UNION {{DigitBlocks[b][i] : i \in 1..10} :
                     b \in 1..Len(DigitBlocks)} |->
        CHOOSE v \in 0..9 :
            \E b \in 1..Len(DigitBlocks) : DigitBlocks[b][v + 1] = c]

IsDigit(c) == c \in DOMAIN DigitValues

DigitVal(c) == DigitValues[c]

\* the blanks int() drops at both ends of its text
WhiteSpace ==
    {"\t", "\n", "<U+000B>", "\f", "\r",
     " ", "<U+0085>", "<U+00A0>", "<U+1680>", "<U+2000>",
     "<U+2001>", "<U+2002>", "<U+2003>", "<U+2004>", "<U+2005>",
     "<U+2006>", "<U+2007>", "<U+2008>", "<U+2009>", "<U+200A>",
     "<U+2028>", "<U+2029>", "<U+202F>", "<U+205F>", "<U+3000>"}

IsSpace(c) == c \in WhiteSpace

\* str(n) for n >= 0
RECURSIVE Decimal(_)
Decimal(n) ==
    IF n < 10 THEN <<Digits[n + 1]>>
    ELSE Decimal(n \div 10) \o <<Digits[(n % 10) + 1]>>

\* f"{n:02d}": zero-padded to two characters, the sign counted, never cut
TwoDigits(n) ==
    IF n < 0 THEN <<"-">> \o Decimal(0 - n)
    ELSE IF n < 10 THEN <<"0", Digits[n + 1]>>
    ELSE Decimal(n)

\* s[i..i+Len(sep)-1] = sep
MatchAt(s, sep, i) ==
    /\ i + Len(sep) - 1 <= Len(s)
    /\ \A k \in 1..Len(sep) : s[i + k - 1] = sep[k]

\* sub in s
Contains(s, sep) == \E i \in 1..Len(s) : MatchAt(s, sep, i)

\* s.split(sep): the parts between the occurrences of sep, left to right
RECURSIVE Split(_, _)
Split(s, sep) ==
    IF ~Contains(s, sep)
    THEN <<s>>
    ELSE LET i == CHOOSE j \in 1..Len(s) :
                      /\ MatchAt(s, sep, j)
                      /\ \A k \in 1..(j - 1) : ~MatchAt(s, sep, k)
         IN  <<SubSeq(s, 1, i - 1)>>
                 \o Split(SubSeq(s, i + Len(sep), Len(s)), sep)

\* str.strip() of the blanks int() ignores
RECURSIVE Strip(_)
Strip(s) ==
    IF s = <<>> THEN s
    ELSE IF IsSpace(s[1]) THEN Strip(Tail(s))
    ELSE IF IsSpace(s[Len(s)]) THEN Strip(SubSeq(s, 1, Len(s) - 1))
    ELSE s

\* digits, single underscores allowed between two digits
DigitRun(s) ==
    /\ s # <<>>
    /\ IsDigit(s[1])
    /\ IsDigit(s[Len(s)])
    /\ \A i \in 1..Len(s) : IsDigit(s[i]) \/ s[i] = "_"
    /\ \A i \in 1..(Len(s) - 1) : ~(s[i] = "_" /\ s[i + 1] = "_")

RECURSIVE DecVal(_, _)
DecVal(s, acc) ==
    IF s = <<>> THEN acc
    ELSE IF s[1] = "_" THEN DecVal(Tail(s), acc)
    ELSE DecVal(Tail(s), acc * 10 + DigitVal(s[1]))

\* int(text): blanks stripped, an optional sign, decimal digits
IntOf(s) ==
    Let(Strip(s), LAMBDA b :
    Let(b # <<>> /\ b[1] \in {"+", "-"}, LAMBDA signed :
    Let(IF signed THEN Tail(b) ELSE b, LAMBDA d :
        IF ~DigitRun(d) THEN Raise("ValueError")
        ELSE Let(DecVal(d, 0), LAMBDA n :
                 Ok(IF signed /\ b[1] = "-" THEN 0 - n ELSE n)))))

---------------------------------------------------------------------------
(* _time_to_minutes *)

COLON == <<":">>

\* the body of the try: h, m = map(int, time_str.split(":")); return h * 60 + m
TimeToMinutesTry(v) ==
    IF v.t # "str" THEN Raise("AttributeError")
    ELSE Let(Split(v.s, COLON), LAMBDA parts :
         Let([i \in 1..Len(parts) |-> IntOf(parts[i])], LAMBDA ints :
             IF Len(parts) < 2 \/ \E i \in 1..Len(parts) : ints[i].tag = "raise"
             THEN Raise("ValueError")
             ELSE IF Len(parts) > 2 THEN Raise("ValueError")
             ELSE Ok(ints[1].v * 60 + ints[2].v)))

\* coordinator.py: except (ValueError, AttributeError): return 0
CoordHandled == {"ValueError", "AttributeError"}

\* the coordinator's copy handling ValueError alone
CoordinatorTimeToMinutesValueErrorOnly(v) ==
    Let(TimeToMinutesTry(v), LAMBDA r :
        IF r.tag = "raise" /\ r.exc = "ValueError" THEN Ok(0) ELSE r)

CoordinatorTimeToMinutes(v) ==
    Let(TimeToMinutesTry(v), LAMBDA r :
        IF r.tag = "raise" /\ r.exc \in CoordHandled THEN Ok(0) ELSE r)

\* sensor.py, AMBCurrentPriceSensor: except Exception: return 0
PriceSensorTimeToMinutes(v) ==
    Let(TimeToMinutesTry(v), LAMBDA r :
        IF r.tag = "raise" THEN Ok(0) ELSE r)

\* sensor.py, AMBCurrentDurationSensor: except Exception: return 0
DurationSensorTimeToMinutes(v) ==
    Let(TimeToMinutesTry(v), LAMBDA r :
        IF r.tag = "raise" THEN Ok(0) ELSE r)

---------------------------------------------------------------------------
(* Writing times and enumerating inputs *)

Unpadded(n) == IF n < 10 THEN <<Digits[n + 1]>> ELSE TwoDigits(n)

\* "%02d:%02d" as the API writes a time of day, and the unpadded form
Tok(h, m, padded) ==
    IF padded THEN TwoDigits(h) \o COLON \o TwoDigits(m)
    ELSE Unpadded(h) \o COLON \o Unpadded(m)

SeqsUpTo(S, n) == UNION {[1..k -> S] : k \in 0..n}

---------------------------------------------------------------------------
(* dict.get, dates, the clock *)

Has(d, k) == k \in DOMAIN d

Get(d, k, default) == IF Has(d, k) THEN d[k] ELSE default

Dates == <<"2025-06-01", "2025-06-02", "2025-06-03">>

\* strftime("%Y-%m-%d") of a day of the calendar
DateStr(d) == Dates[d]

\* now.strftime("%Y-%m-%d")
TodayStr(n) == DateStr(n.day)

\* (now + timedelta(days=1)).strftime("%Y-%m-%d")
TomorrowStr(n) == DateStr(n.day + 1)

\* now.hour * 60 + now.minute
CurrentMinutes(n) == (n.minute \div 60) * 60 + (n.minute % 60)

\* now.isoformat()
IsoFormat(n) ==
    <<DateStr(n.day), TwoDigits(n.minute \div 60), TwoDigits(n.minute % 60)>>

\* str.upper(), character by character: every character whose upper-case
\* form differs from itself, with that form (one to three characters)
UpperPairs ==
    <<<<"a", <<"A">>>>, <<"b", <<"B">>>>, <<"c", <<"C">>>>, <<"d", <<"D">>>>,
      <<"e", <<"E">>>>, <<"f", <<"F">>>>, <<"g", <<"G">>>>, <<"h", <<"H">>>>,
      <<"i", <<"I">>>>, <<"j", <<"J">>>>, <<"k", <<"K">>>>, <<"l", <<"L">>>>,
      <<"m", <<"M">>>>, <<"n", <<"N">>>>, <<"o", <<"O">>>>, <<"p", <<"P">>>>,
      <<"q", <<"Q">>>>, <<"r", <<"R">>>>, <<"s", <<"S">>>>, <<"t", <<"T">>>>,
      <<"u", <<"U">>>>, <<"v", <<"V">>>>, <<"w", <<"W">>>>, <<"x", <<"X">>>>,
      <<"y", <<"Y">>>>, <<"z", <<"Z">>>>, <<"<U+00B5>", <<"<U+039C>">>>>,
      <<"<U+00DF>", <<"S", "S">>>>, <<"<U+00E0>", <<"<U+00C0>">>>>,
      <<"<U+00E1>", <<"<U+00C1>">>>>, <<"<U+00E2>", <<"<U+00C2>">>>>,
      <<"<U+00E3>", <<"<U+00C3>">>>>, <<"<U+00E4>", <<"<U+00C4>">>>>,
      <<"<U+00E5>", <<"<U+00C5>">>>>, <<"<U+00E6>", <<"<U+00C6>">>>>,
      <<"<U+00E7>", <<"<U+00C7>">>>>, <<"<U+00E8>", <<"<U+00C8>">>>>,
      <<"<U+00E9>", <<"<U+00C9>">>>>, <<"<U+00EA>", <<"<U+00CA>">>>>,
      <<"<U+00EB>", <<"<U+00CB>">>>>, <<"<U+00EC>", <<"<U+00CC>">>>>,
      <<"<U+00ED>", <<"<U+00CD>">>>>, <<"<U+00EE>", <<"<U+00CE>">>>>,
      <<"<U+00EF>", <<"<U+00CF>">>>>, <<"<U+00F0>", <<"<U+00D0>">>>>,
      <<"<U+00F1>", <<"<U+00D1>">>>>, <<"<U+00F2>", <<"<U+00D2>">>>>,
      <<"<U+00F3>", <<"<U+00D3>">>>>, <<"<U+00F4>", <<"<U+00D4>">>>>,
      <<"<U+00F5>", <<"<U+00D5>">>>>, <<"<U+00F6>", <<"<U+00D6>">>>>,
      <<"<U+00F8>", <<"<U+00D8>">>>>, <<"<U+00F9>", <<"<U+00D9>">>>>,
      <<"<U+00FA>", <<"<U+00DA>">>>>, <<"<U+00FB>", <<"<U+00DB>">>>>,
      <<"<U+00FC>", <<"<U+00DC>">>>>, <<"<U+00FD>", <<"<U+00DD>">>>>,
      <<"<U+00FE>", <<"<U+00DE>">>>>, <<"<U+00FF>", <<"<U+0178>">>>>,
      <<"<U+0101>", <<"<U+0100>">>>>, <<"<U+0103>", <<"<U+0102>">>>>,
      <<"<U+0105>", <<"<U+0104>">>>>, <<"<U+0107>", <<"<U+0106>">>>>,
      <<"<U+0109>", <<"<U+0108>">>>>, <<"<U+010B>", <<"<U+010A>">>>>,
      <<"<U+010D>", <<"<U+010C>">>>>, <<"<U+010F>", <<"<U+010E>">>>>,
      <<"<U+0111>", <<"<U+0110>">>>>, <<"<U+0113>", <<"<U+0112>">>>>,
      <<"<U+0115>", <<"<U+0114>">>>>, <<"<U+0117>", <<"<U+0116>">>>>,
      <<"<U+0119>", <<"<U+0118>">>>>, <<"<U+011B>", <<"<U+011A>">>>>,
      <<"<U+011D>", <<"<U+011C>">>>>, <<"<U+011F>", <<"<U+011E>">>>>,
      <<"<U+0121>", <<"<U+0120>">>>>, <<"<U+0123>", <<"<U+0122>">>>>,
      <<"<U+0125>", <<"<U+0124>">>>>, <<"<U+0127>", <<"<U+0126>">>>>,
      <<"<U+0129>", <<"<U+0128>">>>>, <<"<U+012B>", <<"<U+012A>">>>>,
      <<"<U+012D>", <<"<U+012C>">>>>, <<"<U+012F>", <<"<U+012E>">>>>,
      <<"<U+0131>", <<"I">>>>, <<"<U+0133>", <<"<U+0132>">>>>,
      <<"<U+0135>", <<"<U+0134>">>>>, <<"<U+0137>", <<"<U+0136>">>>>,
      <<"<U+013A>", <<"<U+0139>">>>>, <<"<U+013C>", <<"<U+013B>">>>>,
      <<"<U+013E>", <<"<U+013D>">>>>, <<"<U+0140>", <<"<U+013F>">>>>,
      <<"<U+0142>", <<"<U+0141>">>>>, <<"<U+0144>", <<"<U+0143>">>>>,
      <<"<U+0146>", <<"<U+0145>">>>>, <<"<U+0148>", <<"<U+0147>">>>>,
      <<"<U+0149>", <<"<U+02BC>", "N">>>>, <<"<U+014B>", <<"<U+014A>">>>>,
      <<"<U+014D>", <<"<U+014C>">>>>, <<"<U+014F>", <<"<U+014E>">>>>,
      <<"<U+0151>", <<"<U+0150>">>>>, <<"<U+0153>", <<"<U+0152>">>>>,
      <<"<U+0155>", <<"<U+0154>">>>>, <<"<U+0157>", <<"<U+0156>">>>>,
      <<"<U+0159>", <<"<U+0158>">>>>, <<"<U+015B>", <<"<U+015A>">>>>,
      <<"<U+015D>", <<"<U+015C>">>>>, <<"<U+015F>", <<"<U+015E>">>>>,
      <<"<U+0161>", <<"<U+0160>">>>>, <<"<U+0163>", <<"<U+0162>">>>>,
      <<"<U+0165>", <<"<U+0164>">>>>, <<"<U+0167>", <<"<U+0166>">>>>,
      <<"<U+0169>", <<"<U+0168>">>>>, <<"<U+016B>", <<"<U+016A>">>>>,
      <<"<U+016D>", <<"<U+016C>">>>>, <<"<U+016F>", <<"<U+016E>">>>>,
      <<"<U+0171>", <<"<U+0170>">>>>, <<"<U+0173>", <<"<U+0172>">>>>,
      <<"<U+0175>", <<"<U+0174>">>>>, <<"<U+0177>", <<"<U+0176>">>>>,
      <<"<U+017A>", <<"<U+0179>">>>>, <<"<U+017C>", <<"<U+017B>">>>>,
      <<"<U+017E>", <<"<U+017D>">>>>, <<"<U+017F>", <<"S">>>>,
      <<"<U+0180>", <<"<U+0243>">>>>, <<"<U+0183>", <<"<U+0182>">>>>,
      <<"<U+0185>", <<"<U+0184>">>>>, <<"<U+0188>", <<"<U+0187>">>>>,
      <<"<U+018C>", <<"<U+018B>">>>>, <<"<U+0192>", <<"<U+0191>">>>>,
      <<"<U+0195>", <<"<U+01F6>">>>>, <<"<U+0199>", <<"<U+0198>">>>>,
      <<"<U+019A>", <<"<U+023D>">>>>, <<"<U+019E>", <<"<U+0220>">>>>,
      <<"<U+01A1>", <<"<U+01A0>">>>>, <<"<U+01A3>", <<"<U+01A2>">>>>,
      <<"<U+01A5>", <<"<U+01A4>">>>>, <<"<U+01A8>", <<"<U+01A7>">>>>,
      <<"<U+01AD>", <<"<U+01AC>">>>>, <<"<U+01B0>", <<"<U+01AF>">>>>,
      <<"<U+01B4>", <<"<U+01B3>">>>>, <<"<U+01B6>", <<"<U+01B5>">>>>,
      <<"<U+01B9>", <<"<U+01B8>">>>>, <<"<U+01BD>", <<"<U+01BC>">>>>,
      <<"<U+01BF>", <<"<U+01F7>">>>>, <<"<U+01C5>", <<"<U+01C4>">>>>,
      <<"<U+01C6>", <<"<U+01C4>">>>>, <<"<U+01C8>", <<"<U+01C7>">>>>,
      <<"<U+01C9>", <<"<U+01C7>">>>>, <<"<U+01CB>", <<"<U+01CA>">>>>,
      <<"<U+01CC>", <<"<U+01CA>">>>>, <<"<U+01CE>", <<"<U+01CD>">>>>,
      <<"<U+01D0>", <<"<U+01CF>">>>>, <<"<U+01D2>", <<"<U+01D1>">>>>,
      <<"<U+01D4>", <<"<U+01D3>">>>>, <<"<U+01D6>", <<"<U+01D5>">>>>,
      <<"<U+01D8>", <<"<U+01D7>">>>>, <<"<U+01DA>", <<"<U+01D9>">>>>,
      <<"<U+01DC>", <<"<U+01DB>">>>>, <<"<U+01DD>", <<"<U+018E>">>>>,
      <<"<U+01DF>", <<"<U+01DE>">>>>, <<"<U+01E1>", <<"<U+01E0>">>>>,
      <<"<U+01E3>", <<"<U+01E2>">>>>, <<"<U+01E5>", <<"<U+01E4>">>>>,
      <<"<U+01E7>", <<"<U+01E6>">>>>, <<"<U+01E9>", <<"<U+01E8>">>>>,
      <<"<U+01EB>", <<"<U+01EA>">>>>, <<"<U+01ED>", <<"<U+01EC>">>>>,
      <<"<U+01EF>", <<"<U+01EE>">>>>, <<"<U+01F0>", <<"J", "<U+030C>">>>>,
      <<"<U+01F2>", <<"<U+01F1>">>>>, <<"<U+01F3>", <<"<U+01F1>">>>>,
      <<"<U+01F5>", <<"<U+01F4>">>>>, <<"<U+01F9>", <<"<U+01F8>">>>>,
      <<"<U+01FB>", <<"<U+01FA>">>>>, <<"<U+01FD>", <<"<U+01FC>">>>>,
      <<"<U+01FF>", <<"<U+01FE>">>>>, <<"<U+0201>", <<"<U+0200>">>>>,
      <<"<U+0203>", <<"<U+0202>">>>>, <<"<U+0205>", <<"<U+0204>">>>>,
      <<"<U+0207>", <<"<U+0206>">>>>, <<"<U+0209>", <<"<U+0208>">>>>,
      <<"<U+020B>", <<"<U+020A>">>>>, <<"<U+020D>", <<"<U+020C>">>>>,
      <<"<U+020F>", <<"<U+020E>">>>>, <<"<U+0211>", <<"<U+0210>">>>>,
      <<"<U+0213>", <<"<U+0212>">>>>, <<"<U+0215>", <<"<U+0214>">>>>,
      <<"<U+0217>", <<"<U+0216>">>>>, <<"<U+0219>", <<"<U+0218>">>>>,
      <<"<U+021B>", <<"<U+021A>">>>>, <<"<U+021D>", <<"<U+021C>">>>>,
      <<"<U+021F>", <<"<U+021E>">>>>, <<"<U+0223>", <<"<U+0222>">>>>,
      <<"<U+0225>", <<"<U+0224>">>>>, <<"<U+0227>", <<"<U+0226>">>>>,
      <<"<U+0229>", <<"<U+0228>">>>>, <<"<U+022B>", <<"<U+022A>">>>>,
      <<"<U+022D>", <<"<U+022C>">>>>, <<"<U+022F>", <<"<U+022E>">>>>,
      <<"<U+0231>", <<"<U+0230>">>>>, <<"<U+0233>", <<"<U+0232>">>>>,
      <<"<U+023C>", <<"<U+023B>">>>>, <<"<U+023F>", <<"<U+2C7E>">>>>,
      <<"<U+0240>", <<"<U+2C7F>">>>>, <<"<U+0242>", <<"<U+0241>">>>>,
      <<"<U+0247>", <<"<U+0246>">>>>, <<"<U+0249>", <<"<U+0248>">>>>,
      <<"<U+024B>", <<"<U+024A>">>>>, <<"<U+024D>", <<"<U+024C>">>>>,
      <<"<U+024F>", <<"<U+024E>">>>>, <<"<U+0250>", <<"<U+2C6F>">>>>,
      <<"<U+0251>", <<"<U+2C6D>">>>>, <<"<U+0252>", <<"<U+2C70>">>>>,
      <<"<U+0253>", <<"<U+0181>">>>>, <<"<U+0254>", <<"<U+0186>">>>>,
      <<"<U+0256>", <<"<U+0189>">>>>, <<"<U+0257>", <<"<U+018A>">>>>,
      <<"<U+0259>", <<"<U+018F>">>>>, <<"<U+025B>", <<"<U+0190>">>>>,
      <<"<U+025C>", <<"<U+A7AB>">>>>, <<"<U+0260>", <<"<U+0193>">>>>,
      <<"<U+0261>", <<"<U+A7AC>">>>>, <<"<U+0263>", <<"<U+0194>">>>>,
      <<"<U+0265>", <<"<U+A78D>">>>>, <<"<U+0266>", <<"<U+A7AA>">>>>,
      <<"<U+0268>", <<"<U+0197>">>>>, <<"<U+0269>", <<"<U+0196>">>>>,
      <<"<U+026A>", <<"<U+A7AE>">>>>, <<"<U+026B>", <<"<U+2C62>">>>>,
      <<"<U+026C>", <<"<U+A7AD>">>>>, <<"<U+026F>", <<"<U+019C>">>>>,
      <<"<U+0271>", <<"<U+2C6E>">>>>, <<"<U+0272>", <<"<U+019D>">>>>,
      <<"<U+0275>", <<"<U+019F>">>>>, <<"<U+027D>", <<"<U+2C64>">>>>,
      <<"<U+0280>", <<"<U+01A6>">>>>, <<"<U+0282>", <<"<U+A7C5>">>>>,
      <<"<U+0283>", <<"<U+01A9>">>>>, <<"<U+0287>", <<"<U+A7B1>">>>>,
      <<"<U+0288>", <<"<U+01AE>">>>>, <<"<U+0289>", <<"<U+0244>">>>>,
      <<"<U+028A>", <<"<U+01B1>">>>>, <<"<U+028B>", <<"<U+01B2>">>>>,
      <<"<U+028C>", <<"<U+0245>">>>>, <<"<U+0292>", <<"<U+01B7>">>>>,
      <<"<U+029D>", <<"<U+A7B2>">>>>, <<"<U+029E>", <<"<U+A7B0>">>>>,
      <<"<U+0345>", <<"<U+0399>">>>>, <<"<U+0371>", <<"<U+0370>">>>>,
      <<"<U+0373>", <<"<U+0372>">>>>, <<"<U+0377>", <<"<U+0376>">>>>,
      <<"<U+037B>", <<"<U+03FD>">>>>, <<"<U+037C>", <<"<U+03FE>">>>>,
      <<"<U+037D>", <<"<U+03FF>">>>>,
      <<"<U+0390>", <<"<U+0399>", "<U+0308>", "<U+0301>">>>>,
      <<"<U+03AC>", <<"<U+0386>">>>>, <<"<U+03AD>", <<"<U+0388>">>>>,
      <<"<U+03AE>", <<"<U+0389>">>>>, <<"<U+03AF>", <<"<U+038A>">>>>,
      <<"<U+03B0>", <<"<U+03A5>", "<U+0308>", "<U+0301>">>>>,
      <<"<U+03B1>", <<"<U+0391>">>>>, <<"<U+03B2>", <<"<U+0392>">>>>,
      <<"<U+03B3>", <<"<U+0393>">>>>, <<"<U+03B4>", <<"<U+0394>">>>>,
      <<"<U+03B5>", <<"<U+0395>">>>>, <<"<U+03B6>", <<"<U+0396>">>>>,
      <<"<U+03B7>", <<"<U+0397>">>>>, <<"<U+03B8>", <<"<U+0398>">>>>,
      <<"<U+03B9>", <<"<U+0399>">>>>, <<"<U+03BA>", <<"<U+039A>">>>>,
      <<"<U+03BB>", <<"<U+039B>">>>>, <<"<U+03BC>", <<"<U+039C>">>>>,
      <<"<U+03BD>", <<"<U+039D>">>>>, <<"<U+03BE>", <<"<U+039E>">>>>,
      <<"<U+03BF>", <<"<U+039F>">>>>, <<"<U+03C0>", <<"<U+03A0>">>>>,
      <<"<U+03C1>", <<"<U+03A1>">>>>, <<"<U+03C2>", <<"<U+03A3>">>>>,
      <<"<U+03C3>", <<"<U+03A3>">>>>, <<"<U+03C4>", <<"<U+03A4>">>>>,
      <<"<U+03C5>", <<"<U+03A5>">>>>, <<"<U+03C6>", <<"<U+03A6>">>>>,
      <<"<U+03C7>", <<"<U+03A7>">>>>, <<"<U+03C8>", <<"<U+03A8>">>>>,
      <<"<U+03C9>", <<"<U+03A9>">>>>, <<"<U+03CA>", <<"<U+03AA>">>>>,
      <<"<U+03CB>", <<"<U+03AB>">>>>, <<"<U+03CC>", <<"<U+038C>">>>>,
      <<"<U+03CD>", <<"<U+038E>">>>>, <<"<U+03CE>", <<"<U+038F>">>>>,
      <<"<U+03D0>", <<"<U+0392>">>>>, <<"<U+03D1>", <<"<U+0398>">>>>,
      <<"<U+03D5>", <<"<U+03A6>">>>>, <<"<U+03D6>", <<"<U+03A0>">>>>,
      <<"<U+03D7>", <<"<U+03CF>">>>>, <<"<U+03D9>", <<"<U+03D8>">>>>,
      <<"<U+03DB>", <<"<U+03DA>">>>>, <<"<U+03DD>", <<"<U+03DC>">>>>,
      <<"<U+03DF>", <<"<U+03DE>">>>>, <<"<U+03E1>", <<"<U+03E0>">>>>,
      <<"<U+03E3>", <<"<U+03E2>">>>>, <<"<U+03E5>", <<"<U+03E4>">>>>,
      <<"<U+03E7>", <<"<U+03E6>">>>>, <<"<U+03E9>", <<"<U+03E8>">>>>,
      <<"<U+03EB>", <<"<U+03EA>">>>>, <<"<U+03ED>", <<"<U+03EC>">>>>,
      <<"<U+03EF>", <<"<U+03EE>">>>>, <<"<U+03F0>", <<"<U+039A>">>>>,
      <<"<U+03F1>", <<"<U+03A1>">>>>, <<"<U+03F2>", <<"<U+03F9>">>>>,
      <<"<U+03F3>", <<"<U+037F>">>>>, <<"<U+03F5>", <<"<U+0395>">>>>,
      <<"<U+03F8>", <<"<U+03F7>">>>>, <<"<U+03FB>", <<"<U+03FA>">>>>,
      <<"<U+0430>", <<"<U+0410>">>>>, <<"<U+0431>", <<"<U+0411>">>>>,
      <<"<U+0432>", <<"<U+0412>">>>>, <<"<U+0433>", <<"<U+0413>">>>>,
      <<"<U+0434>", <<"<U+0414>">>>>, <<"<U+0435>", <<"<U+0415>">>>>,
      <<"<U+0436>", <<"<U+0416>">>>>, <<"<U+0437>", <<"<U+0417>">>>>,
      <<"<U+0438>", <<"<U+0418>">>>>, <<"<U+0439>", <<"<U+0419>">>>>,
      <<"<U+043A>", <<"<U+041A>">>>>, <<"<U+043B>", <<"<U+041B>">>>>,
      <<"<U+043C>", <<"<U+041C>">>>>, <<"<U+043D>", <<"<U+041D>">>>>,
      <<"<U+043E>", <<"<U+041E>">>>>, <<"<U+043F>", <<"<U+041F>">>>>,
      <<"<U+0440>", <<"<U+0420>">>>>, <<"<U+0441>", <<"<U+0421>">>>>,
      <<"<U+0442>", <<"<U+0422>">>>>, <<"<U+0443>", <<"<U+0423>">>>>,
      <<"<U+0444>", <<"<U+0424>">>>>, <<"<U+0445>", <<"<U+0425>">>>>,
      <<"<U+0446>", <<"<U+0426>">>>>, <<"<U+0447>", <<"<U+0427>">>>>,
      <<"<U+0448>", <<"<U+0428>">>>>, <<"<U+0449>", <<"<U+0429>">>>>,
      <<"<U+044A>", <<"<U+042A>">>>>, <<"<U+044B>", <<"<U+042B>">>>>,
      <<"<U+044C>", <<"<U+042C>">>>>, <<"<U+044D>", <<"<U+042D>">>>>,
      <<"<U+044E>", <<"<U+042E>">>>>, <<"<U+044F>", <<"<U+042F>">>>>,
      <<"<U+0450>", <<"<U+0400>">>>>, <<"<U+0451>", <<"<U+0401>">>>>,
      <<"<U+0452>", <<"<U+0402>">>>>, <<"<U+0453>", <<"<U+0403>">>>>,
      <<"<U+0454>", <<"<U+0404>">>>>, <<"<U+0455>", <<"<U+0405>">>>>,
      <<"<U+0456>", <<"<U+0406>">>>>, <<"<U+0457>", <<"<U+0407>">>>>,
      <<"<U+0458>", <<"<U+0408>">>>>, <<"<U+0459>", <<"<U+0409>">>>>,
      <<"<U+045A>", <<"<U+040A>">>>>, <<"<U+045B>", <<"<U+040B>">>>>,
      <<"<U+045C>", <<"<U+040C>">>>>, <<"<U+045D>", <<"<U+040D>">>>>,
      <<"<U+045E>", <<"<U+040E>">>>>, <<"<U+045F>", <<"<U+040F>">>>>,
      <<"<U+0461>", <<"<U+0460>">>>>, <<"<U+0463>", <<"<U+0462>">>>>,
      <<"<U+0465>", <<"<U+0464>">>>>, <<"<U+0467>", <<"<U+0466>">>>>,
      <<"<U+0469>", <<"<U+0468>">>>>, <<"<U+046B>", <<"<U+046A>">>>>,
      <<"<U+046D>", <<"<U+046C>">>>>, <<"<U+046F>", <<"<U+046E>">>>>,
      <<"<U+0471>", <<"<U+0470>">>>>, <<"<U+0473>", <<"<U+0472>">>>>,
      <<"<U+0475>", <<"<U+0474>">>>>, <<"<U+0477>", <<"<U+0476>">>>>,
      <<"<U+0479>", <<"<U+0478>">>>>, <<"<U+047B>", <<"<U+047A>">>>>,
      <<"<U+047D>", <<"<U+047C>">>>>, <<"<U+047F>", <<"<U+047E>">>>>,
      <<"<U+0481>", <<"<U+0480>">>>>, <<"<U+048B>", <<"<U+048A>">>>>,
      <<"<U+048D>", <<"<U+048C>">>>>, <<"<U+048F>", <<"<U+048E>">>>>,
      <<"<U+0491>", <<"<U+0490>">>>>, <<"<U+0493>", <<"<U+0492>">>>>,
      <<"<U+0495>", <<"<U+0494>">>>>, <<"<U+0497>", <<"<U+0496>">>>>,
      <<"<U+0499>", <<"<U+0498>">>>>, <<"<U+049B>", <<"<U+049A>">>>>,
      <<"<U+049D>", <<"<U+049C>">>>>, <<"<U+049F>", <<"<U+049E>">>>>,
      <<"<U+04A1>", <<"<U+04A0>">>>>, <<"<U+04A3>", <<"<U+04A2>">>>>,
      <<"<U+04A5>", <<"<U+04A4>">>>>, <<"<U+04A7>", <<"<U+04A6>">>>>,
      <<"<U+04A9>", <<"<U+04A8>">>>>, <<"<U+04AB>", <<"<U+04AA>">>>>,
      <<"<U+04AD>", <<"<U+04AC>">>>>, <<"<U+04AF>", <<"<U+04AE>">>>>,
      <<"<U+04B1>", <<"<U+04B0>">>>>, <<"<U+04B3>", <<"<U+04B2>">>>>,
      <<"<U+04B5>", <<"<U+04B4>">>>>, <<"<U+04B7>", <<"<U+04B6>">>>>,
      <<"<U+04B9>", <<"<U+04B8>">>>>, <<"<U+04BB>", <<"<U+04BA>">>>>,
      <<"<U+04BD>", <<"<U+04BC>">>>>, <<"<U+04BF>", <<"<U+04BE>">>>>,
      <<"<U+04C2>", <<"<U+04C1>">>>>, <<"<U+04C4>", <<"<U+04C3>">>>>,
      <<"<U+04C6>", <<"<U+04C5>">>>>, <<"<U+04C8>", <<"<U+04C7>">>>>,
      <<"<U+04CA>", <<"<U+04C9>">>>>, <<"<U+04CC>", <<"<U+04CB>">>>>,
      <<"<U+04CE>", <<"<U+04CD>">>>>, <<"<U+04CF>", <<"<U+04C0>">>>>,
      <<"<U+04D1>", <<"<U+04D0>">>>>, <<"<U+04D3>", <<"<U+04D2>">>>>,
      <<"<U+04D5>", <<"<U+04D4>">>>>, <<"<U+04D7>", <<"<U+04D6>">>>>,
      <<"<U+04D9>", <<"<U+04D8>">>>>, <<"<U+04DB>", <<"<U+04DA>">>>>,
      <<"<U+04DD>", <<"<U+04DC>">>>>, <<"<U+04DF>", <<"<U+04DE>">>>>,
      <<"<U+04E1>", <<"<U+04E0>">>>>, <<"<U+04E3>", <<"<U+04E2>">>>>,
      <<"<U+04E5>", <<"<U+04E4>">>>>, <<"<U+04E7>", <<"<U+04E6>">>>>,
      <<"<U+04E9>", <<"<U+04E8>">>>>, <<"<U+04EB>", <<"<U+04EA>">>>>,
      <<"<U+04ED>", <<"<U+04EC>">>>>, <<"<U+04EF>", <<"<U+04EE>">>>>,
      <<"<U+04F1>", <<"<U+04F0>">>>>, <<"<U+04F3>", <<"<U+04F2>">>>>,
      <<"<U+04F5>", <<"<U+04F4>">>>>, <<"<U+04F7>", <<"<U+04F6>">>>>,
      <<"<U+04F9>", <<"<U+04F8>">>>>, <<"<U+04FB>", <<"<U+04FA>">>>>,
      <<"<U+04FD>", <<"<U+04FC>">>>>, <<"<U+04FF>", <<"<U+04FE>">>>>,
      <<"<U+0501>", <<"<U+0500>">>>>, <<"<U+0503>", <<"<U+0502>">>>>,
      <<"<U+0505>", <<"<U+0504>">>>>, <<"<U+0507>", <<"<U+0506>">>>>,
      <<"<U+0509>", <<"<U+0508>">>>>, <<"<U+050B>", <<"<U+050A>">>>>,
      <<"<U+050D>", <<"<U+050C>">>>>, <<"<U+050F>", <<"<U+050E>">>>>,
      <<"<U+0511>", <<"<U+0510>">>>>, <<"<U+0513>", <<"<U+0512>">>>>,
      <<"<U+0515>", <<"<U+0514>">>>>, <<"<U+0517>", <<"<U+0516>">>>>,
      <<"<U+0519>", <<"<U+0518>">>>>, <<"<U+051B>", <<"<U+051A>">>>>,
      <<"<U+051D>", <<"<U+051C>">>>>, <<"<U+051F>", <<"<U+051E>">>>>,
      <<"<U+0521>", <<"<U+0520>">>>>, <<"<U+0523>", <<"<U+0522>">>>>,
      <<"<U+0525>", <<"<U+0524>">>>>, <<"<U+0527>", <<"<U+0526>">>>>,
      <<"<U+0529>", <<"<U+0528>">>>>, <<"<U+052B>", <<"<U+052A>">>>>,
      <<"<U+052D>", <<"<U+052C>">>>>, <<"<U+052F>", <<"<U+052E>">>>>,
      <<"<U+0561>", <<"<U+0531>">>>>, <<"<U+0562>", <<"<U+0532>">>>>,
      <<"<U+0563>", <<"<U+0533>">>>>, <<"<U+0564>", <<"<U+0534>">>>>,
      <<"<U+0565>", <<"<U+0535>">>>>, <<"<U+0566>", <<"<U+0536>">>>>,
      <<"<U+0567>", <<"<U+0537>">>>>, <<"<U+0568>", <<"<U+0538>">>>>,
      <<"<U+0569>", <<"<U+0539>">>>>, <<"<U+056A>", <<"<U+053A>">>>>,
      <<"<U+056B>", <<"<U+053B>">>>>, <<"<U+056C>", <<"<U+053C>">>>>,
      <<"<U+056D>", <<"<U+053D>">>>>, <<"<U+056E>", <<"<U+053E>">>>>,
      <<"<U+056F>", <<"<U+053F>">>>>, <<"<U+0570>", <<"<U+0540>">>>>,
      <<"<U+0571>", <<"<U+0541>">>>>, <<"<U+0572>", <<"<U+0542>">>>>,
      <<"<U+0573>", <<"<U+0543>">>>>, <<"<U+0574>", <<"<U+0544>">>>>,
      <<"<U+0575>", <<"<U+0545>">>>>, <<"<U+0576>", <<"<U+0546>">>>>,
      <<"<U+0577>", <<"<U+0547>">>>>, <<"<U+0578>", <<"<U+0548>">>>>,
      <<"<U+0579>", <<"<U+0549>">>>>, <<"<U+057A>", <<"<U+054A>">>>>,
      <<"<U+057B>", <<"<U+054B>">>>>, <<"<U+057C>", <<"<U+054C>">>>>,
      <<"<U+057D>", <<"<U+054D>">>>>, <<"<U+057E>", <<"<U+054E>">>>>,
      <<"<U+057F>", <<"<U+054F>">>>>, <<"<U+0580>", <<"<U+0550>">>>>,
      <<"<U+0581>", <<"<U+0551>">>>>, <<"<U+0582>", <<"<U+0552>">>>>,
      <<"<U+0583>", <<"<U+0553>">>>>, <<"<U+0584>", <<"<U+0554>">>>>,
      <<"<U+0585>", <<"<U+0555>">>>>, <<"<U+0586>", <<"<U+0556>">>>>,
      <<"<U+0587>", <<"<U+0535>", "<U+0552>">>>>,
      <<"<U+10D0>", <<"<U+1C90>">>>>, <<"<U+10D1>", <<"<U+1C91>">>>>,
      <<"<U+10D2>", <<"<U+1C92>">>>>, <<"<U+10D3>", <<"<U+1C93>">>>>,
      <<"<U+10D4>", <<"<U+1C94>">>>>, <<"<U+10D5>", <<"<U+1C95>">>>>,
      <<"<U+10D6>", <<"<U+1C96>">>>>, <<"<U+10D7>", <<"<U+1C97>">>>>,
      <<"<U+10D8>", <<"<U+1C98>">>>>, <<"<U+10D9>", <<"<U+1C99>">>>>,
      <<"<U+10DA>", <<"<U+1C9A>">>>>, <<"<U+10DB>", <<"<U+1C9B>">>>>,
      <<"<U+10DC>", <<"<U+1C9C>">>>>, <<"<U+10DD>", <<"<U+1C9D>">>>>,
      <<"<U+10DE>", <<"<U+1C9E>">>>>, <<"<U+10DF>", <<"<U+1C9F>">>>>,
      <<"<U+10E0>", <<"<U+1CA0>">>>>, <<"<U+10E1>", <<"<U+1CA1>">>>>,
      <<"<U+10E2>", <<"<U+1CA2>">>>>, <<"<U+10E3>", <<"<U+1CA3>">>>>,
      <<"<U+10E4>", <<"<U+1CA4>">>>>, <<"<U+10E5>", <<"<U+1CA5>">>>>,
      <<"<U+10E6>", <<"<U+1CA6>">>>>, <<"<U+10E7>", <<"<U+1CA7>">>>>,
      <<"<U+10E8>", <<"<U+1CA8>">>>>, <<"<U+10E9>", <<"<U+1CA9>">>>>,
      <<"<U+10EA>", <<"<U+1CAA>">>>>, <<"<U+10EB>", <<"<U+1CAB>">>>>,
      <<"<U+10EC>", <<"<U+1CAC>">>>>, <<"<U+10ED>", <<"<U+1CAD>">>>>,
      <<"<U+10EE>", <<"<U+1CAE>">>>>, <<"<U+10EF>", <<"<U+1CAF>">>>>,
      <<"<U+10F0>", <<"<U+1CB0>">>>>, <<"<U+10F1>", <<"<U+1CB1>">>>>,
      <<"<U+10F2>", <<"<U+1CB2>">>>>, <<"<U+10F3>", <<"<U+1CB3>">>>>,
      <<"<U+10F4>", <<"<U+1CB4>">>>>, <<"<U+10F5>", <<"<U+1CB5>">>>>,
      <<"<U+10F6>", <<"<U+1CB6>">>>>, <<"<U+10F7>", <<"<U+1CB7>">>>>,
      <<"<U+10F8>", <<"<U+1CB8>">>>>, <<"<U+10F9>", <<"<U+1CB9>">>>>,
      <<"<U+10FA>", <<"<U+1CBA>">>>>, <<"<U+10FD>", <<"<U+1CBD>">>>>,
      <<"<U+10FE>", <<"<U+1CBE>">>>>, <<"<U+10FF>", <<"<U+1CBF>">>>>,
      <<"<U+13F8>", <<"<U+13F0>">>>>, <<"<U+13F9>", <<"<U+13F1>">>>>,
      <<"<U+13FA>", <<"<U+13F2>">>>>, <<"<U+13FB>", <<"<U+13F3>">>>>,
      <<"<U+13FC>", <<"<U+13F4>">>>>, <<"<U+13FD>", <<"<U+13F5>">>>>,
      <<"<U+1C80>", <<"<U+0412>">>>>, <<"<U+1C81>", <<"<U+0414>">>>>,
      <<"<U+1C82>", <<"<U+041E>">>>>, <<"<U+1C83>", <<"<U+0421>">>>>,
      <<"<U+1C84>", <<"<U+0422>">>>>, <<"<U+1C85>", <<"<U+0422>">>>>,
      <<"<U+1C86>", <<"<U+042A>">>>>, <<"<U+1C87>", <<"<U+0462>">>>>,
      <<"<U+1C88>", <<"<U+A64A>">>>>, <<"<U+1D79>", <<"<U+A77D>">>>>,
      <<"<U+1D7D>", <<"<U+2C63>">>>>, <<"<U+1D8E>", <<"<U+A7C6>">>>>,
      <<"<U+1E01>", <<"<U+1E00>">>>>, <<"<U+1E03>", <<"<U+1E02>">>>>,
      <<"<U+1E05>", <<"<U+1E04>">>>>, <<"<U+1E07>", <<"<U+1E06>">>>>,
      <<"<U+1E09>", <<"<U+1E08>">>>>, <<"<U+1E0B>", <<"<U+1E0A>">>>>,
      <<"<U+1E0D>", <<"<U+1E0C>">>>>, <<"<U+1E0F>", <<"<U+1E0E>">>>>,
      <<"<U+1E11>", <<"<U+1E10>">>>>, <<"<U+1E13>", <<"<U+1E12>">>>>,
      <<"<U+1E15>", <<"<U+1E14>">>>>, <<"<U+1E17>", <<"<U+1E16>">>>>,
      <<"<U+1E19>", <<"<U+1E18>">>>>, <<"<U+1E1B>", <<"<U+1E1A>">>>>,
      <<"<U+1E1D>", <<"<U+1E1C>">>>>, <<"<U+1E1F>", <<"<U+1E1E>">>>>,
      <<"<U+1E21>", <<"<U+1E20>">>>>, <<"<U+1E23>", <<"<U+1E22>">>>>,
      <<"<U+1E25>", <<"<U+1E24>">>>>, <<"<U+1E27>", <<"<U+1E26>">>>>,
      <<"<U+1E29>", <<"<U+1E28>">>>>, <<"<U+1E2B>", <<"<U+1E2A>">>>>,
      <<"<U+1E2D>", <<"<U+1E2C>">>>>, <<"<U+1E2F>", <<"<U+1E2E>">>>>,
      <<"<U+1E31>", <<"<U+1E30>">>>>, <<"<U+1E33>", <<"<U+1E32>">>>>,
      <<"<U+1E35>", <<"<U+1E34>">>>>, <<"<U+1E37>", <<"<U+1E36>">>>>,
      <<"<U+1E39>", <<"<U+1E38>">>>>, <<"<U+1E3B>", <<"<U+1E3A>">>>>,
      <<"<U+1E3D>", <<"<U+1E3C>">>>>, <<"<U+1E3F>", <<"<U+1E3E>">>>>,
      <<"<U+1E41>", <<"<U+1E40>">>>>, <<"<U+1E43>", <<"<U+1E42>">>>>,
      <<"<U+1E45>", <<"<U+1E44>">>>>, <<"<U+1E47>", <<"<U+1E46>">>>>,
      <<"<U+1E49>", <<"<U+1E48>">>>>, <<"<U+1E4B>", <<"<U+1E4A>">>>>,
      <<"<U+1E4D>", <<"<U+1E4C>">>>>, <<"<U+1E4F>", <<"<U+1E4E>">>>>,
      <<"<U+1E51>", <<"<U+1E50>">>>>, <<"<U+1E53>", <<"<U+1E52>">>>>,
      <<"<U+1E55>", <<"<U+1E54>">>>>, <<"<U+1E57>", <<"<U+1E56>">>>>,
      <<"<U+1E59>", <<"<U+1E58>">>>>, <<"<U+1E5B>", <<"<U+1E5A>">>>>,
      <<"<U+1E5D>", <<"<U+1E5C>">>>>, <<"<U+1E5F>", <<"<U+1E5E>">>>>,
      <<"<U+1E61>", <<"<U+1E60>">>>>, <<"<U+1E63>", <<"<U+1E62>">>>>,
      <<"<U+1E65>", <<"<U+1E64>">>>>, <<"<U+1E67>", <<"<U+1E66>">>>>,
      <<"<U+1E69>", <<"<U+1E68>">>>>, <<"<U+1E6B>", <<"<U+1E6A>">>>>,
      <<"<U+1E6D>", <<"<U+1E6C>">>>>, <<"<U+1E6F>", <<"<U+1E6E>">>>>,
      <<"<U+1E71>", <<"<U+1E70>">>>>, <<"<U+1E73>", <<"<U+1E72>">>>>,
      <<"<U+1E75>", <<"<U+1E74>">>>>, <<"<U+1E77>", <<"<U+1E76>">>>>,
      <<"<U+1E79>", <<"<U+1E78>">>>>, <<"<U+1E7B>", <<"<U+1E7A>">>>>,
      <<"<U+1E7D>", <<"<U+1E7C>">>>>, <<"<U+1E7F>", <<"<U+1E7E>">>>>,
      <<"<U+1E81>", <<"<U+1E80>">>>>, <<"<U+1E83>", <<"<U+1E82>">>>>,
      <<"<U+1E85>", <<"<U+1E84>">>>>, <<"<U+1E87>", <<"<U+1E86>">>>>,
      <<"<U+1E89>", <<"<U+1E88>">>>>, <<"<U+1E8B>", <<"<U+1E8A>">>>>,
      <<"<U+1E8D>", <<"<U+1E8C>">>>>, <<"<U+1E8F>", <<"<U+1E8E>">>>>,
      <<"<U+1E91>", <<"<U+1E90>">>>>, <<"<U+1E93>", <<"<U+1E92>">>>>,
      <<"<U+1E95>", <<"<U+1E94>">>>>, <<"<U+1E96>", <<"H", "<U+0331>">>>>,
      <<"<U+1E97>", <<"T", "<U+0308>">>>>,
      <<"<U+1E98>", <<"W", "<U+030A>">>>>,
      <<"<U+1E99>", <<"Y", "<U+030A>">>>>,
      <<"<U+1E9A>", <<"A", "<U+02BE>">>>>, <<"<U+1E9B>", <<"<U+1E60>">>>>,
      <<"<U+1EA1>", <<"<U+1EA0>">>>>, <<"<U+1EA3>", <<"<U+1EA2>">>>>,
      <<"<U+1EA5>", <<"<U+1EA4>">>>>, <<"<U+1EA7>", <<"<U+1EA6>">>>>,
      <<"<U+1EA9>", <<"<U+1EA8>">>>>, <<"<U+1EAB>", <<"<U+1EAA>">>>>,
      <<"<U+1EAD>", <<"<U+1EAC>">>>>, <<"<U+1EAF>", <<"<U+1EAE>">>>>,
      <<"<U+1EB1>", <<"<U+1EB0>">>>>, <<"<U+1EB3>", <<"<U+1EB2>">>>>,
      <<"<U+1EB5>", <<"<U+1EB4>">>>>, <<"<U+1EB7>", <<"<U+1EB6>">>>>,
      <<"<U+1EB9>", <<"<U+1EB8>">>>>, <<"<U+1EBB>", <<"<U+1EBA>">>>>,
      <<"<U+1EBD>", <<"<U+1EBC>">>>>, <<"<U+1EBF>", <<"<U+1EBE>">>>>,
      <<"<U+1EC1>", <<"<U+1EC0>">>>>, <<"<U+1EC3>", <<"<U+1EC2>">>>>,
      <<"<U+1EC5>", <<"<U+1EC4>">>>>, <<"<U+1EC7>", <<"<U+1EC6>">>>>,
      <<"<U+1EC9>", <<"<U+1EC8>">>>>, <<"<U+1ECB>", <<"<U+1ECA>">>>>,
      <<"<U+1ECD>", <<"<U+1ECC>">>>>, <<"<U+1ECF>", <<"<U+1ECE>">>>>,
      <<"<U+1ED1>", <<"<U+1ED0>">>>>, <<"<U+1ED3>", <<"<U+1ED2>">>>>,
      <<"<U+1ED5>", <<"<U+1ED4>">>>>, <<"<U+1ED7>", <<"<U+1ED6>">>>>,
      <<"<U+1ED9>", <<"<U+1ED8>">>>>, <<"<U+1EDB>", <<"<U+1EDA>">>>>,
      <<"<U+1EDD>", <<"<U+1EDC>">>>>, <<"<U+1EDF>", <<"<U+1EDE>">>>>,
      <<"<U+1EE1>", <<"<U+1EE0>">>>>, <<"<U+1EE3>", <<"<U+1EE2>">>>>,
      <<"<U+1EE5>", <<"<U+1EE4>">>>>, <<"<U+1EE7>", <<"<U+1EE6>">>>>,
      <<"<U+1EE9>", <<"<U+1EE8>">>>>, <<"<U+1EEB>", <<"<U+1EEA>">>>>,
      <<"<U+1EED>", <<"<U+1EEC>">>>>, <<"<U+1EEF>", <<"<U+1EEE>">>>>,
      <<"<U+1EF1>", <<"<U+1EF0>">>>>, <<"<U+1EF3>", <<"<U+1EF2>">>>>,
      <<"<U+1EF5>", <<"<U+1EF4>">>>>, <<"<U+1EF7>", <<"<U+1EF6>">>>>,
      <<"<U+1EF9>", <<"<U+1EF8>">>>>, <<"<U+1EFB>", <<"<U+1EFA>">>>>,
      <<"<U+1EFD>", <<"<U+1EFC>">>>>, <<"<U+1EFF>", <<"<U+1EFE>">>>>,
      <<"<U+1F00>", <<"<U+1F08>">>>>, <<"<U+1F01>", <<"<U+1F09>">>>>,
      <<"<U+1F02>", <<"<U+1F0A>">>>>, <<"<U+1F03>", <<"<U+1F0B>">>>>,
      <<"<U+1F04>", <<"<U+1F0C>">>>>, <<"<U+1F05>", <<"<U+1F0D>">>>>,
      <<"<U+1F06>", <<"<U+1F0E>">>>>, <<"<U+1F07>", <<"<U+1F0F>">>>>,
      <<"<U+1F10>", <<"<U+1F18>">>>>, <<"<U+1F11>", <<"<U+1F19>">>>>,
      <<"<U+1F12>", <<"<U+1F1A>">>>>, <<"<U+1F13>", <<"<U+1F1B>">>>>,
      <<"<U+1F14>", <<"<U+1F1C>">>>>, <<"<U+1F15>", <<"<U+1F1D>">>>>,
      <<"<U+1F20>", <<"<U+1F28>">>>>, <<"<U+1F21>", <<"<U+1F29>">>>>,
      <<"<U+1F22>", <<"<U+1F2A>">>>>, <<"<U+1F23>", <<"<U+1F2B>">>>>,
      <<"<U+1F24>", <<"<U+1F2C>">>>>, <<"<U+1F25>", <<"<U+1F2D>">>>>,
      <<"<U+1F26>", <<"<U+1F2E>">>>>, <<"<U+1F27>", <<"<U+1F2F>">>>>,
      <<"<U+1F30>", <<"<U+1F38>">>>>, <<"<U+1F31>", <<"<U+1F39>">>>>,
      <<"<U+1F32>", <<"<U+1F3A>">>>>, <<"<U+1F33>", <<"<U+1F3B>">>>>,
      <<"<U+1F34>", <<"<U+1F3C>">>>>, <<"<U+1F35>", <<"<U+1F3D>">>>>,
      <<"<U+1F36>", <<"<U+1F3E>">>>>, <<"<U+1F37>", <<"<U+1F3F>">>>>,
      <<"<U+1F40>", <<"<U+1F48>">>>>, <<"<U+1F41>", <<"<U+1F49>">>>>,
      <<"<U+1F42>", <<"<U+1F4A>">>>>, <<"<U+1F43>", <<"<U+1F4B>">>>>,
      <<"<U+1F44>", <<"<U+1F4C>">>>>, <<"<U+1F45>", <<"<U+1F4D>">>>>,
      <<"<U+1F50>", <<"<U+03A5>", "<U+0313>">>>>,
      <<"<U+1F51>", <<"<U+1F59>">>>>,
      <<"<U+1F52>", <<"<U+03A5>", "<U+0313>", "<U+0300>">>>>,
      <<"<U+1F53>", <<"<U+1F5B>">>>>,
      <<"<U+1F54>", <<"<U+03A5>", "<U+0313>", "<U+0301>">>>>,
      <<"<U+1F55>", <<"<U+1F5D>">>>>,
      <<"<U+1F56>", <<"<U+03A5>", "<U+0313>", "<U+0342>">>>>,
      <<"<U+1F57>", <<"<U+1F5F>">>>>, <<"<U+1F60>", <<"<U+1F68>">>>>,
      <<"<U+1F61>", <<"<U+1F69>">>>>, <<"<U+1F62>", <<"<U+1F6A>">>>>,
      <<"<U+1F63>", <<"<U+1F6B>">>>>, <<"<U+1F64>", <<"<U+1F6C>">>>>,
      <<"<U+1F65>", <<"<U+1F6D>">>>>, <<"<U+1F66>", <<"<U+1F6E>">>>>,
      <<"<U+1F67>", <<"<U+1F6F>">>>>, <<"<U+1F70>", <<"<U+1FBA>">>>>,
      <<"<U+1F71>", <<"<U+1FBB>">>>>, <<"<U+1F72>", <<"<U+1FC8>">>>>,
      <<"<U+1F73>", <<"<U+1FC9>">>>>, <<"<U+1F74>", <<"<U+1FCA>">>>>,
      <<"<U+1F75>", <<"<U+1FCB>">>>>, <<"<U+1F76>", <<"<U+1FDA>">>>>,
      <<"<U+1F77>", <<"<U+1FDB>">>>>, <<"<U+1F78>", <<"<U+1FF8>">>>>,
      <<"<U+1F79>", <<"<U+1FF9>">>>>, <<"<U+1F7A>", <<"<U+1FEA>">>>>,
      <<"<U+1F7B>", <<"<U+1FEB>">>>>, <<"<U+1F7C>", <<"<U+1FFA>">>>>,
      <<"<U+1F7D>", <<"<U+1FFB>">>>>,
      <<"<U+1F80>", <<"<U+1F08>", "<U+0399>">>>>,
      <<"<U+1F81>", <<"<U+1F09>", "<U+0399>">>>>,
      <<"<U+1F82>", <<"<U+1F0A>", "<U+0399>">>>>,
      <<"<U+1F83>", <<"<U+1F0B>", "<U+0399>">>>>,
      <<"<U+1F84>", <<"<U+1F0C>", "<U+0399>">>>>,
      <<"<U+1F85>", <<"<U+1F0D>", "<U+0399>">>>>,
      <<"<U+1F86>", <<"<U+1F0E>", "<U+0399>">>>>,
      <<"<U+1F87>", <<"<U+1F0F>", "<U+0399>">>>>,
      <<"<U+1F88>", <<"<U+1F08>", "<U+0399>">>>>,
      <<"<U+1F89>", <<"<U+1F09>", "<U+0399>">>>>,
      <<"<U+1F8A>", <<"<U+1F0A>", "<U+0399>">>>>,
      <<"<U+1F8B>", <<"<U+1F0B>", "<U+0399>">>>>,
      <<"<U+1F8C>", <<"<U+1F0C>", "<U+0399>">>>>,
      <<"<U+1F8D>", <<"<U+1F0D>", "<U+0399>">>>>,
      <<"<U+1F8E>", <<"<U+1F0E>", "<U+0399>">>>>,
      <<"<U+1F8F>", <<"<U+1F0F>", "<U+0399>">>>>,
      <<"<U+1F90>", <<"<U+1F28>", "<U+0399>">>>>,
      <<"<U+1F91>", <<"<U+1F29>", "<U+0399>">>>>,
      <<"<U+1F92>", <<"<U+1F2A>", "<U+0399>">>>>,
      <<"<U+1F93>", <<"<U+1F2B>", "<U+0399>">>>>,
      <<"<U+1F94>", <<"<U+1F2C>", "<U+0399>">>>>,
      <<"<U+1F95>", <<"<U+1F2D>", "<U+0399>">>>>,
      <<"<U+1F96>", <<"<U+1F2E>", "<U+0399>">>>>,
      <<"<U+1F97>", <<"<U+1F2F>", "<U+0399>">>>>,
      <<"<U+1F98>", <<"<U+1F28>", "<U+0399>">>>>,
      <<"<U+1F99>", <<"<U+1F29>", "<U+0399>">>>>,
      <<"<U+1F9A>", <<"<U+1F2A>", "<U+0399>">>>>,
      <<"<U+1F9B>", <<"<U+1F2B>", "<U+0399>">>>>,
      <<"<U+1F9C>", <<"<U+1F2C>", "<U+0399>">>>>,
      <<"<U+1F9D>", <<"<U+1F2D>", "<U+0399>">>>>,
      <<"<U+1F9E>", <<"<U+1F2E>", "<U+0399>">>>>,
      <<"<U+1F9F>", <<"<U+1F2F>", "<U+0399>">>>>,
      <<"<U+1FA0>", <<"<U+1F68>", "<U+0399>">>>>,
      <<"<U+1FA1>", <<"<U+1F69>", "<U+0399>">>>>,
      <<"<U+1FA2>", <<"<U+1F6A>", "<U+0399>">>>>,
      <<"<U+1FA3>", <<"<U+1F6B>", "<U+0399>">>>>,
      <<"<U+1FA4>", <<"<U+1F6C>", "<U+0399>">>>>,
      <<"<U+1FA5>", <<"<U+1F6D>", "<U+0399>">>>>,
      <<"<U+1FA6>", <<"<U+1F6E>", "<U+0399>">>>>,
      <<"<U+1FA7>", <<"<U+1F6F>", "<U+0399>">>>>,
      <<"<U+1FA8>", <<"<U+1F68>", "<U+0399>">>>>,
      <<"<U+1FA9>", <<"<U+1F69>", "<U+0399>">>>>,
      <<"<U+1FAA>", <<"<U+1F6A>", "<U+0399>">>>>,
      <<"<U+1FAB>", <<"<U+1F6B>", "<U+0399>">>>>,
      <<"<U+1FAC>", <<"<U+1F6C>", "<U+0399>">>>>,
      <<"<U+1FAD>", <<"<U+1F6D>", "<U+0399>">>>>,
      <<"<U+1FAE>", <<"<U+1F6E>", "<U+0399>">>>>,
      <<"<U+1FAF>", <<"<U+1F6F>", "<U+0399>">>>>,
      <<"<U+1FB0>", <<"<U+1FB8>">>>>, <<"<U+1FB1>", <<"<U+1FB9>">>>>,
      <<"<U+1FB2>", <<"<U+1FBA>", "<U+0399>">>>>,
      <<"<U+1FB3>", <<"<U+0391>", "<U+0399>">>>>,
      <<"<U+1FB4>", <<"<U+0386>", "<U+0399>">>>>,
      <<"<U+1FB6>", <<"<U+0391>", "<U+0342>">>>>,
      <<"<U+1FB7>", <<"<U+0391>", "<U+0342>", "<U+0399>">>>>,
      <<"<U+1FBC>", <<"<U+0391>", "<U+0399>">>>>,
      <<"<U+1FBE>", <<"<U+0399>">>>>,
      <<"<U+1FC2>", <<"<U+1FCA>", "<U+0399>">>>>,
      <<"<U+1FC3>", <<"<U+0397>", "<U+0399>">>>>,
      <<"<U+1FC4>", <<"<U+0389>", "<U+0399>">>>>,
      <<"<U+1FC6>", <<"<U+0397>", "<U+0342>">>>>,
      <<"<U+1FC7>", <<"<U+0397>", "<U+0342>", "<U+0399>">>>>,
      <<"<U+1FCC>", <<"<U+0397>", "<U+0399>">>>>,
      <<"<U+1FD0>", <<"<U+1FD8>">>>>, <<"<U+1FD1>", <<"<U+1FD9>">>>>,
      <<"<U+1FD2>", <<"<U+0399>", "<U+0308>", "<U+0300>">>>>,
      <<"<U+1FD3>", <<"<U+0399>", "<U+0308>", "<U+0301>">>>>,
      <<"<U+1FD6>", <<"<U+0399>", "<U+0342>">>>>,
      <<"<U+1FD7>", <<"<U+0399>", "<U+0308>", "<U+0342>">>>>,
      <<"<U+1FE0>", <<"<U+1FE8>">>>>, <<"<U+1FE1>", <<"<U+1FE9>">>>>,
      <<"<U+1FE2>", <<"<U+03A5>", "<U+0308>", "<U+0300>">>>>,
      <<"<U+1FE3>", <<"<U+03A5>", "<U+0308>", "<U+0301>">>>>,
      <<"<U+1FE4>", <<"<U+03A1>", "<U+0313>">>>>,
      <<"<U+1FE5>", <<"<U+1FEC>">>>>,
      <<"<U+1FE6>", <<"<U+03A5>", "<U+0342>">>>>,
      <<"<U+1FE7>", <<"<U+03A5>", "<U+0308>", "<U+0342>">>>>,
      <<"<U+1FF2>", <<"<U+1FFA>", "<U+0399>">>>>,
      <<"<U+1FF3>", <<"<U+03A9>", "<U+0399>">>>>,
      <<"<U+1FF4>", <<"<U+038F>", "<U+0399>">>>>,
      <<"<U+1FF6>", <<"<U+03A9>", "<U+0342>">>>>,
      <<"<U+1FF7>", <<"<U+03A9>", "<U+0342>", "<U+0399>">>>>,
      <<"<U+1FFC>", <<"<U+03A9>", "<U+0399>">>>>,
      <<"<U+214E>", <<"<U+2132>">>>>, <<"<U+2170>", <<"<U+2160>">>>>,
      <<"<U+2171>", <<"<U+2161>">>>>, <<"<U+2172>", <<"<U+2162>">>>>,
      <<"<U+2173>", <<"<U+2163>">>>>, <<"<U+2174>", <<"<U+2164>">>>>,
      <<"<U+2175>", <<"<U+2165>">>>>, <<"<U+2176>", <<"<U+2166>">>>>,
      <<"<U+2177>", <<"<U+2167>">>>>, <<"<U+2178>", <<"<U+2168>">>>>,
      <<"<U+2179>", <<"<U+2169>">>>>, <<"<U+217A>", <<"<U+216A>">>>>,
      <<"<U+217B>", <<"<U+216B>">>>>, <<"<U+217C>", <<"<U+216C>">>>>,
      <<"<U+217D>", <<"<U+216D>">>>>, <<"<U+217E>", <<"<U+216E>">>>>,
      <<"<U+217F>", <<"<U+216F>">>>>, <<"<U+2184>", <<"<U+2183>">>>>,
      <<"<U+24D0>", <<"<U+24B6>">>>>, <<"<U+24D1>", <<"<U+24B7>">>>>,
      <<"<U+24D2>", <<"<U+24B8>">>>>, <<"<U+24D3>", <<"<U+24B9>">>>>,
      <<"<U+24D4>", <<"<U+24BA>">>>>, <<"<U+24D5>", <<"<U+24BB>">>>>,
      <<"<U+24D6>", <<"<U+24BC>">>>>, <<"<U+24D7>", <<"<U+24BD>">>>>,
      <<"<U+24D8>", <<"<U+24BE>">>>>, <<"<U+24D9>", <<"<U+24BF>">>>>,
      <<"<U+24DA>", <<"<U+24C0>">>>>, <<"<U+24DB>", <<"<U+24C1>">>>>,
      <<"<U+24DC>", <<"<U+24C2>">>>>, <<"<U+24DD>", <<"<U+24C3>">>>>,
      <<"<U+24DE>", <<"<U+24C4>">>>>, <<"<U+24DF>", <<"<U+24C5>">>>>,
      <<"<U+24E0>", <<"<U+24C6>">>>>, <<"<U+24E1>", <<"<U+24C7>">>>>,
      <<"<U+24E2>", <<"<U+24C8>">>>>, <<"<U+24E3>", <<"<U+24C9>">>>>,
      <<"<U+24E4>", <<"<U+24CA>">>>>, <<"<U+24E5>", <<"<U+24CB>">>>>,
      <<"<U+24E6>", <<"<U+24CC>">>>>, <<"<U+24E7>", <<"<U+24CD>">>>>,
      <<"<U+24E8>", <<"<U+24CE>">>>>, <<"<U+24E9>", <<"<U+24CF>">>>>,
      <<"<U+2C30>", <<"<U+2C00>">>>>, <<"<U+2C31>", <<"<U+2C01>">>>>,
      <<"<U+2C32>", <<"<U+2C02>">>>>, <<"<U+2C33>", <<"<U+2C03>">>>>,
      <<"<U+2C34>", <<"<U+2C04>">>>>, <<"<U+2C35>", <<"<U+2C05>">>>>,
      <<"<U+2C36>", <<"<U+2C06>">>>>, <<"<U+2C37>", <<"<U+2C07>">>>>,
      <<"<U+2C38>", <<"<U+2C08>">>>>, <<"<U+2C39>", <<"<U+2C09>">>>>,
      <<"<U+2C3A>", <<"<U+2C0A>">>>>, <<"<U+2C3B>", <<"<U+2C0B>">>>>,
      <<"<U+2C3C>", <<"<U+2C0C>">>>>, <<"<U+2C3D>", <<"<U+2C0D>">>>>,
      <<"<U+2C3E>", <<"<U+2C0E>">>>>, <<"<U+2C3F>", <<"<U+2C0F>">>>>,
      <<"<U+2C40>", <<"<U+2C10>">>>>, <<"<U+2C41>", <<"<U+2C11>">>>>,
      <<"<U+2C42>", <<"<U+2C12>">>>>, <<"<U+2C43>", <<"<U+2C13>">>>>,
      <<"<U+2C44>", <<"<U+2C14>">>>>, <<"<U+2C45>", <<"<U+2C15>">>>>,
      <<"<U+2C46>", <<"<U+2C16>">>>>, <<"<U+2C47>", <<"<U+2C17>">>>>,
      <<"<U+2C48>", <<"<U+2C18>">>>>, <<"<U+2C49>", <<"<U+2C19>">>>>,
      <<"<U+2C4A>", <<"<U+2C1A>">>>>, <<"<U+2C4B>", <<"<U+2C1B>">>>>,
      <<"<U+2C4C>", <<"<U+2C1C>">>>>, <<"<U+2C4D>", <<"<U+2C1D>">>>>,
      <<"<U+2C4E>", <<"<U+2C1E>">>>>, <<"<U+2C4F>", <<"<U+2C1F>">>>>,
      <<"<U+2C50>", <<"<U+2C20>">>>>, <<"<U+2C51>", <<"<U+2C21>">>>>,
      <<"<U+2C52>", <<"<U+2C22>">>>>, <<"<U+2C53>", <<"<U+2C23>">>>>,
      <<"<U+2C54>", <<"<U+2C24>">>>>, <<"<U+2C55>", <<"<U+2C25>">>>>,
      <<"<U+2C56>", <<"<U+2C26>">>>>, <<"<U+2C57>", <<"<U+2C27>">>>>,
      <<"<U+2C58>", <<"<U+2C28>">>>>, <<"<U+2C59>", <<"<U+2C29>">>>>,
      <<"<U+2C5A>", <<"<U+2C2A>">>>>, <<"<U+2C5B>", <<"<U+2C2B>">>>>,
      <<"<U+2C5C>", <<"<U+2C2C>">>>>, <<"<U+2C5D>", <<"<U+2C2D>">>>>,
      <<"<U+2C5E>", <<"<U+2C2E>">>>>, <<"<U+2C5F>", <<"<U+2C2F>">>>>,
      <<"<U+2C61>", <<"<U+2C60>">>>>, <<"<U+2C65>", <<"<U+023A>">>>>,
      <<"<U+2C66>", <<"<U+023E>">>>>, <<"<U+2C68>", <<"<U+2C67>">>>>,
      <<"<U+2C6A>", <<"<U+2C69>">>>>, <<"<U+2C6C>", <<"<U+2C6B>">>>>,
      <<"<U+2C73>", <<"<U+2C72>">>>>, <<"<U+2C76>", <<"<U+2C75>">>>>,
      <<"<U+2C81>", <<"<U+2C80>">>>>, <<"<U+2C83>", <<"<U+2C82>">>>>,
      <<"<U+2C85>", <<"<U+2C84>">>>>, <<"<U+2C87>", <<"<U+2C86>">>>>,
      <<"<U+2C89>", <<"<U+2C88>">>>>, <<"<U+2C8B>", <<"<U+2C8A>">>>>,
      <<"<U+2C8D>", <<"<U+2C8C>">>>>, <<"<U+2C8F>", <<"<U+2C8E>">>>>,
      <<"<U+2C91>", <<"<U+2C90>">>>>, <<"<U+2C93>", <<"<U+2C92>">>>>,
      <<"<U+2C95>", <<"<U+2C94>">>>>, <<"<U+2C97>", <<"<U+2C96>">>>>,
      <<"<U+2C99>", <<"<U+2C98>">>>>, <<"<U+2C9B>", <<"<U+2C9A>">>>>,
      <<"<U+2C9D>", <<"<U+2C9C>">>>>, <<"<U+2C9F>", <<"<U+2C9E>">>>>,
      <<"<U+2CA1>", <<"<U+2CA0>">>>>, <<"<U+2CA3>", <<"<U+2CA2>">>>>,
      <<"<U+2CA5>", <<"<U+2CA4>">>>>, <<"<U+2CA7>", <<"<U+2CA6>">>>>,
      <<"<U+2CA9>", <<"<U+2CA8>">>>>, <<"<U+2CAB>", <<"<U+2CAA>">>>>,
      <<"<U+2CAD>", <<"<U+2CAC>">>>>, <<"<U+2CAF>", <<"<U+2CAE>">>>>,
      <<"<U+2CB1>", <<"<U+2CB0>">>>>, <<"<U+2CB3>", <<"<U+2CB2>">>>>,
      <<"<U+2CB5>", <<"<U+2CB4>">>>>, <<"<U+2CB7>", <<"<U+2CB6>">>>>,
      <<"<U+2CB9>", <<"<U+2CB8>">>>>, <<"<U+2CBB>", <<"<U+2CBA>">>>>,
      <<"<U+2CBD>", <<"<U+2CBC>">>>>, <<"<U+2CBF>", <<"<U+2CBE>">>>>,
      <<"<U+2CC1>", <<"<U+2CC0>">>>>, <<"<U+2CC3>", <<"<U+2CC2>">>>>,
      <<"<U+2CC5>", <<"<U+2CC4>">>>>, <<"<U+2CC7>", <<"<U+2CC6>">>>>,
      <<"<U+2CC9>", <<"<U+2CC8>">>>>, <<"<U+2CCB>", <<"<U+2CCA>">>>>,
      <<"<U+2CCD>", <<"<U+2CCC>">>>>, <<"<U+2CCF>", <<"<U+2CCE>">>>>,
      <<"<U+2CD1>", <<"<U+2CD0>">>>>, <<"<U+2CD3>", <<"<U+2CD2>">>>>,
      <<"<U+2CD5>", <<"<U+2CD4>">>>>, <<"<U+2CD7>", <<"<U+2CD6>">>>>,
      <<"<U+2CD9>", <<"<U+2CD8>">>>>, <<"<U+2CDB>", <<"<U+2CDA>">>>>,
      <<"<U+2CDD>", <<"<U+2CDC>">>>>, <<"<U+2CDF>", <<"<U+2CDE>">>>>,
      <<"<U+2CE1>", <<"<U+2CE0>">>>>, <<"<U+2CE3>", <<"<U+2CE2>">>>>,
      <<"<U+2CEC>", <<"<U+2CEB>">>>>, <<"<U+2CEE>", <<"<U+2CED>">>>>,
      <<"<U+2CF3>", <<"<U+2CF2>">>>>, <<"<U+2D00>", <<"<U+10A0>">>>>,
      <<"<U+2D01>", <<"<U+10A1>">>>>, <<"<U+2D02>", <<"<U+10A2>">>>>,
      <<"<U+2D03>", <<"<U+10A3>">>>>, <<"<U+2D04>", <<"<U+10A4>">>>>,
      <<"<U+2D05>", <<"<U+10A5>">>>>, <<"<U+2D06>", <<"<U+10A6>">>>>,
      <<"<U+2D07>", <<"<U+10A7>">>>>, <<"<U+2D08>", <<"<U+10A8>">>>>,
      <<"<U+2D09>", <<"<U+10A9>">>>>, <<"<U+2D0A>", <<"<U+10AA>">>>>,
      <<"<U+2D0B>", <<"<U+10AB>">>>>, <<"<U+2D0C>", <<"<U+10AC>">>>>,
      <<"<U+2D0D>", <<"<U+10AD>">>>>, <<"<U+2D0E>", <<"<U+10AE>">>>>,
      <<"<U+2D0F>", <<"<U+10AF>">>>>, <<"<U+2D10>", <<"<U+10B0>">>>>,
      <<"<U+2D11>", <<"<U+10B1>">>>>, <<"<U+2D12>", <<"<U+10B2>">>>>,
      <<"<U+2D13>", <<"<U+10B3>">>>>, <<"<U+2D14>", <<"<U+10B4>">>>>,
      <<"<U+2D15>", <<"<U+10B5>">>>>, <<"<U+2D16>", <<"<U+10B6>">>>>,
      <<"<U+2D17>", <<"<U+10B7>">>>>, <<"<U+2D18>", <<"<U+10B8>">>>>,
      <<"<U+2D19>", <<"<U+10B9>">>>>, <<"<U+2D1A>", <<"<U+10BA>">>>>,
      <<"<U+2D1B>", <<"<U+10BB>">>>>, <<"<U+2D1C>", <<"<U+10BC>">>>>,
      <<"<U+2D1D>", <<"<U+10BD>">>>>, <<"<U+2D1E>", <<"<U+10BE>">>>>,
      <<"<U+2D1F>", <<"<U+10BF>">>>>, <<"<U+2D20>", <<"<U+10C0>">>>>,
      <<"<U+2D21>", <<"<U+10C1>">>>>, <<"<U+2D22>", <<"<U+10C2>">>>>,
      <<"<U+2D23>", <<"<U+10C3>">>>>, <<"<U+2D24>", <<"<U+10C4>">>>>,
      <<"<U+2D25>", <<"<U+10C5>">>>>, <<"<U+2D27>", <<"<U+10C7>">>>>,
      <<"<U+2D2D>", <<"<U+10CD>">>>>, <<"<U+A641>", <<"<U+A640>">>>>,
      <<"<U+A643>", <<"<U+A642>">>>>, <<"<U+A645>", <<"<U+A644>">>>>,
      <<"<U+A647>", <<"<U+A646>">>>>, <<"<U+A649>", <<"<U+A648>">>>>,
      <<"<U+A64B>", <<"<U+A64A>">>>>, <<"<U+A64D>", <<"<U+A64C>">>>>,
      <<"<U+A64F>", <<"<U+A64E>">>>>, <<"<U+A651>", <<"<U+A650>">>>>,
      <<"<U+A653>", <<"<U+A652>">>>>, <<"<U+A655>", <<"<U+A654>">>>>,
      <<"<U+A657>", <<"<U+A656>">>>>, <<"<U+A659>", <<"<U+A658>">>>>,
      <<"<U+A65B>", <<"<U+A65A>">>>>, <<"<U+A65D>", <<"<U+A65C>">>>>,
      <<"<U+A65F>", <<"<U+A65E>">>>>, <<"<U+A661>", <<"<U+A660>">>>>,
      <<"<U+A663>", <<"<U+A662>">>>>, <<"<U+A665>", <<"<U+A664>">>>>,
      <<"<U+A667>", <<"<U+A666>">>>>, <<"<U+A669>", <<"<U+A668>">>>>,
      <<"<U+A66B>", <<"<U+A66A>">>>>, <<"<U+A66D>", <<"<U+A66C>">>>>,
      <<"<U+A681>", <<"<U+A680>">>>>, <<"<U+A683>", <<"<U+A682>">>>>,
      <<"<U+A685>", <<"<U+A684>">>>>, <<"<U+A687>", <<"<U+A686>">>>>,
      <<"<U+A689>", <<"<U+A688>">>>>, <<"<U+A68B>", <<"<U+A68A>">>>>,
      <<"<U+A68D>", <<"<U+A68C>">>>>, <<"<U+A68F>", <<"<U+A68E>">>>>,
      <<"<U+A691>", <<"<U+A690>">>>>, <<"<U+A693>", <<"<U+A692>">>>>,
      <<"<U+A695>", <<"<U+A694>">>>>, <<"<U+A697>", <<"<U+A696>">>>>,
      <<"<U+A699>", <<"<U+A698>">>>>, <<"<U+A69B>", <<"<U+A69A>">>>>,
      <<"<U+A723>", <<"<U+A722>">>>>, <<"<U+A725>", <<"<U+A724>">>>>,
      <<"<U+A727>", <<"<U+A726>">>>>, <<"<U+A729>", <<"<U+A728>">>>>,
      <<"<U+A72B>", <<"<U+A72A>">>>>, <<"<U+A72D>", <<"<U+A72C>">>>>,
      <<"<U+A72F>", <<"<U+A72E>">>>>, <<"<U+A733>", <<"<U+A732>">>>>,
      <<"<U+A735>", <<"<U+A734>">>>>, <<"<U+A737>", <<"<U+A736>">>>>,
      <<"<U+A739>", <<"<U+A738>">>>>, <<"<U+A73B>", <<"<U+A73A>">>>>,
      <<"<U+A73D>", <<"<U+A73C>">>>>, <<"<U+A73F>", <<"<U+A73E>">>>>,
      <<"<U+A741>", <<"<U+A740>">>>>, <<"<U+A743>", <<"<U+A742>">>>>,
      <<"<U+A745>", <<"<U+A744>">>>>, <<"<U+A747>", <<"<U+A746>">>>>,
      <<"<U+A749>", <<"<U+A748>">>>>, <<"<U+A74B>", <<"<U+A74A>">>>>,
      <<"<U+A74D>", <<"<U+A74C>">>>>, <<"<U+A74F>", <<"<U+A74E>">>>>,
      <<"<U+A751>", <<"<U+A750>">>>>, <<"<U+A753>", <<"<U+A752>">>>>,
      <<"<U+A755>", <<"<U+A754>">>>>, <<"<U+A757>", <<"<U+A756>">>>>,
      <<"<U+A759>", <<"<U+A758>">>>>, <<"<U+A75B>", <<"<U+A75A>">>>>,
      <<"<U+A75D>", <<"<U+A75C>">>>>, <<"<U+A75F>", <<"<U+A75E>">>>>,
      <<"<U+A761>", <<"<U+A760>">>>>, <<"<U+A763>", <<"<U+A762>">>>>,
      <<"<U+A765>", <<"<U+A764>">>>>, <<"<U+A767>", <<"<U+A766>">>>>,
      <<"<U+A769>", <<"<U+A768>">>>>, <<"<U+A76B>", <<"<U+A76A>">>>>,
      <<"<U+A76D>", <<"<U+A76C>">>>>, <<"<U+A76F>", <<"<U+A76E>">>>>,
      <<"<U+A77A>", <<"<U+A779>">>>>, <<"<U+A77C>", <<"<U+A77B>">>>>,
      <<"<U+A77F>", <<"<U+A77E>">>>>, <<"<U+A781>", <<"<U+A780>">>>>,
      <<"<U+A783>", <<"<U+A782>">>>>, <<"<U+A785>", <<"<U+A784>">>>>,
      <<"<U+A787>", <<"<U+A786>">>>>, <<"<U+A78C>", <<"<U+A78B>">>>>,
      <<"<U+A791>", <<"<U+A790>">>>>, <<"<U+A793>", <<"<U+A792>">>>>,
      <<"<U+A794>", <<"<U+A7C4>">>>>, <<"<U+A797>", <<"<U+A796>">>>>,
      <<"<U+A799>", <<"<U+A798>">>>>, <<"<U+A79B>", <<"<U+A79A>">>>>,
      <<"<U+A79D>", <<"<U+A79C>">>>>, <<"<U+A79F>", <<"<U+A79E>">>>>,
      <<"<U+A7A1>", <<"<U+A7A0>">>>>, <<"<U+A7A3>", <<"<U+A7A2>">>>>,
      <<"<U+A7A5>", <<"<U+A7A4>">>>>, <<"<U+A7A7>", <<"<U+A7A6>">>>>,
      <<"<U+A7A9>", <<"<U+A7A8>">>>>, <<"<U+A7B5>", <<"<U+A7B4>">>>>,
      <<"<U+A7B7>", <<"<U+A7B6>">>>>, <<"<U+A7B9>", <<"<U+A7B8>">>>>,
      <<"<U+A7BB>", <<"<U+A7BA>">>>>, <<"<U+A7BD>", <<"<U+A7BC>">>>>,
      <<"<U+A7BF>", <<"<U+A7BE>">>>>, <<"<U+A7C1>", <<"<U+A7C0>">>>>,
      <<"<U+A7C3>", <<"<U+A7C2>">>>>, <<"<U+A7C8>", <<"<U+A7C7>">>>>,
      <<"<U+A7CA>", <<"<U+A7C9>">>>>, <<"<U+A7D1>", <<"<U+A7D0>">>>>,
      <<"<U+A7D7>", <<"<U+A7D6>">>>>, <<"<U+A7D9>", <<"<U+A7D8>">>>>,
      <<"<U+A7F6>", <<"<U+A7F5>">>>>, <<"<U+AB53>", <<"<U+A7B3>">>>>,
      <<"<U+AB70>", <<"<U+13A0>">>>>, <<"<U+AB71>", <<"<U+13A1>">>>>,
      <<"<U+AB72>", <<"<U+13A2>">>>>, <<"<U+AB73>", <<"<U+13A3>">>>>,
      <<"<U+AB74>", <<"<U+13A4>">>>>, <<"<U+AB75>", <<"<U+13A5>">>>>,
      <<"<U+AB76>", <<"<U+13A6>">>>>, <<"<U+AB77>", <<"<U+13A7>">>>>,
      <<"<U+AB78>", <<"<U+13A8>">>>>, <<"<U+AB79>", <<"<U+13A9>">>>>,
      <<"<U+AB7A>", <<"<U+13AA>">>>>, <<"<U+AB7B>", <<"<U+13AB>">>>>,
      <<"<U+AB7C>", <<"<U+13AC>">>>>, <<"<U+AB7D>", <<"<U+13AD>">>>>,
      <<"<U+AB7E>", <<"<U+13AE>">>>>, <<"<U+AB7F>", <<"<U+13AF>">>>>,
      <<"<U+AB80>", <<"<U+13B0>">>>>, <<"<U+AB81>", <<"<U+13B1>">>>>,
      <<"<U+AB82>", <<"<U+13B2>">>>>, <<"<U+AB83>", <<"<U+13B3>">>>>,
      <<"<U+AB84>", <<"<U+13B4>">>>>, <<"<U+AB85>", <<"<U+13B5>">>>>,
      <<"<U+AB86>", <<"<U+13B6>">>>>, <<"<U+AB87>", <<"<U+13B7>">>>>,
      <<"<U+AB88>", <<"<U+13B8>">>>>, <<"<U+AB89>", <<"<U+13B9>">>>>,
      <<"<U+AB8A>", <<"<U+13BA>">>>>, <<"<U+AB8B>", <<"<U+13BB>">>>>,
      <<"<U+AB8C>", <<"<U+13BC>">>>>, <<"<U+AB8D>", <<"<U+13BD>">>>>,
      <<"<U+AB8E>", <<"<U+13BE>">>>>, <<"<U+AB8F>", <<"<U+13BF>">>>>,
      <<"<U+AB90>", <<"<U+13C0>">>>>, <<"<U+AB91>", <<"<U+13C1>">>>>,
      <<"<U+AB92>", <<"<U+13C2>">>>>, <<"<U+AB93>", <<"<U+13C3>">>>>,
      <<"<U+AB94>", <<"<U+13C4>">>>>, <<"<U+AB95>", <<"<U+13C5>">>>>,
      <<"<U+AB96>", <<"<U+13C6>">>>>, <<"<U+AB97>", <<"<U+13C7>">>>>,
      <<"<U+AB98>", <<"<U+13C8>">>>>, <<"<U+AB99>", <<"<U+13C9>">>>>,
      <<"<U+AB9A>", <<"<U+13CA>">>>>, <<"<U+AB9B>", <<"<U+13CB>">>>>,
      <<"<U+AB9C>", <<"<U+13CC>">>>>, <<"<U+AB9D>", <<"<U+13CD>">>>>,
      <<"<U+AB9E>", <<"<U+13CE>">>>>, <<"<U+AB9F>", <<"<U+13CF>">>>>,
      <<"<U+ABA0>", <<"<U+13D0>">>>>, <<"<U+ABA1>", <<"<U+13D1>">>>>,
      <<"<U+ABA2>", <<"<U+13D2>">>>>, <<"<U+ABA3>", <<"<U+13D3>">>>>,
      <<"<U+ABA4>", <<"<U+13D4>">>>>, <<"<U+ABA5>", <<"<U+13D5>">>>>,
      <<"<U+ABA6>", <<"<U+13D6>">>>>, <<"<U+ABA7>", <<"<U+13D7>">>>>,
      <<"<U+ABA8>", <<"<U+13D8>">>>>, <<"<U+ABA9>", <<"<U+13D9>">>>>,
      <<"<U+ABAA>", <<"<U+13DA>">>>>, <<"<U+ABAB>", <<"<U+13DB>">>>>,
      <<"<U+ABAC>", <<"<U+13DC>">>>>, <<"<U+ABAD>", <<"<U+13DD>">>>>,
      <<"<U+ABAE>", <<"<U+13DE>">>>>, <<"<U+ABAF>", <<"<U+13DF>">>>>,
      <<"<U+ABB0>", <<"<U+13E0>">>>>, <<"<U+ABB1>", <<"<U+13E1>">>>>,
      <<"<U+ABB2>", <<"<U+13E2>">>>>, <<"<U+ABB3>", <<"<U+13E3>">>>>,
      <<"<U+ABB4>", <<"<U+13E4>">>>>, <<"<U+ABB5>", <<"<U+13E5>">>>>,
      <<"<U+ABB6>", <<"<U+13E6>">>>>, <<"<U+ABB7>", <<"<U+13E7>">>>>,
      <<"<U+ABB8>", <<"<U+13E8>">>>>, <<"<U+ABB9>", <<"<U+13E9>">>>>,
      <<"<U+ABBA>", <<"<U+13EA>">>>>, <<"<U+ABBB>", <<"<U+13EB>">>>>,
      <<"<U+ABBC>", <<"<U+13EC>">>>>, <<"<U+ABBD>", <<"<U+13ED>">>>>,
      <<"<U+ABBE>", <<"<U+13EE>">>>>, <<"<U+ABBF>", <<"<U+13EF>">>>>,
      <<"<U+FB00>", <<"F", "F">>>>, <<"<U+FB01>", <<"F", "I">>>>,
      <<"<U+FB02>", <<"F", "L">>>>, <<"<U+FB03>", <<"F", "F", "I">>>>,
      <<"<U+FB04>", <<"F", "F", "L">>>>, <<"<U+FB05>", <<"S", "T">>>>,
      <<"<U+FB06>", <<"S", "T">>>>,
      <<"<U+FB13>", <<"<U+0544>", "<U+0546>">>>>,
      <<"<U+FB14>", <<"<U+0544>", "<U+0535>">>>>,
      <<"<U+FB15>", <<"<U+0544>", "<U+053B>">>>>,
      <<"<U+FB16>", <<"<U+054E>", "<U+0546>">>>>,
      <<"<U+FB17>", <<"<U+0544>", "<U+053D>">>>>,
      <<"<U+FF41>", <<"<U+FF21>">>>>, <<"<U+FF42>", <<"<U+FF22>">>>>,
      <<"<U+FF43>", <<"<U+FF23>">>>>, <<"<U+FF44>", <<"<U+FF24>">>>>,
      <<"<U+FF45>", <<"<U+FF25>">>>>, <<"<U+FF46>", <<"<U+FF26>">>>>,
      <<"<U+FF47>", <<"<U+FF27>">>>>, <<"<U+FF48>", <<"<U+FF28>">>>>,
      <<"<U+FF49>", <<"<U+FF29>">>>>, <<"<U+FF4A>", <<"<U+FF2A>">>>>,
      <<"<U+FF4B>", <<"<U+FF2B>">>>>, <<"<U+FF4C>", <<"<U+FF2C>">>>>,
      <<"<U+FF4D>", <<"<U+FF2D>">>>>, <<"<U+FF4E>", <<"<U+FF2E>">>>>,
      <<"<U+FF4F>", <<"<U+FF2F>">>>>, <<"<U+FF50>", <<"<U+FF30>">>>>,
      <<"<U+FF51>", <<"<U+FF31>">>>>, <<"<U+FF52>", <<"<U+FF32>">>>>,
      <<"<U+FF53>", <<"<U+FF33>">>>>, <<"<U+FF54>", <<"<U+FF34>">>>>,
      <<"<U+FF55>", <<"<U+FF35>">>>>, <<"<U+FF56>", <<"<U+FF36>">>>>,
      <<"<U+FF57>", <<"<U+FF37>">>>>, <<"<U+FF58>", <<"<U+FF38>">>>>,
      <<"<U+FF59>", <<"<U+FF39>">>>>, <<"<U+FF5A>", <<"<U+FF3A>">>>>,
      <<"<U+10428>", <<"<U+10400>">>>>, <<"<U+10429>", <<"<U+10401>">>>>,
      <<"<U+1042A>", <<"<U+10402>">>>>, <<"<U+1042B>", <<"<U+10403>">>>>,
      <<"<U+1042C>", <<"<U+10404>">>>>, <<"<U+1042D>", <<"<U+10405>">>>>,
      <<"<U+1042E>", <<"<U+10406>">>>>, <<"<U+1042F>", <<"<U+10407>">>>>,
      <<"<U+10430>", <<"<U+10408>">>>>, <<"<U+10431>", <<"<U+10409>">>>>,
      <<"<U+10432>", <<"<U+1040A>">>>>, <<"<U+10433>", <<"<U+1040B>">>>>,
      <<"<U+10434>", <<"<U+1040C>">>>>, <<"<U+10435>", <<"<U+1040D>">>>>,
      <<"<U+10436>", <<"<U+1040E>">>>>, <<"<U+10437>", <<"<U+1040F>">>>>,
      <<"<U+10438>", <<"<U+10410>">>>>, <<"<U+10439>", <<"<U+10411>">>>>,
      <<"<U+1043A>", <<"<U+10412>">>>>, <<"<U+1043B>", <<"<U+10413>">>>>,
      <<"<U+1043C>", <<"<U+10414>">>>>, <<"<U+1043D>", <<"<U+10415>">>>>,
      <<"<U+1043E>", <<"<U+10416>">>>>, <<"<U+1043F>", <<"<U+10417>">>>>,
      <<"<U+10440>", <<"<U+10418>">>>>, <<"<U+10441>", <<"<U+10419>">>>>,
      <<"<U+10442>", <<"<U+1041A>">>>>, <<"<U+10443>", <<"<U+1041B>">>>>,
      <<"<U+10444>", <<"<U+1041C>">>>>, <<"<U+10445>", <<"<U+1041D>">>>>,
      <<"<U+10446>", <<"<U+1041E>">>>>, <<"<U+10447>", <<"<U+1041F>">>>>,
      <<"<U+10448>", <<"<U+10420>">>>>, <<"<U+10449>", <<"<U+10421>">>>>,
      <<"<U+1044A>", <<"<U+10422>">>>>, <<"<U+1044B>", <<"<U+10423>">>>>,
      <<"<U+1044C>", <<"<U+10424>">>>>, <<"<U+1044D>", <<"<U+10425>">>>>,
      <<"<U+1044E>", <<"<U+10426>">>>>, <<"<U+1044F>", <<"<U+10427>">>>>,
      <<"<U+104D8>", <<"<U+104B0>">>>>, <<"<U+104D9>", <<"<U+104B1>">>>>,
      <<"<U+104DA>", <<"<U+104B2>">>>>, <<"<U+104DB>", <<"<U+104B3>">>>>,
      <<"<U+104DC>", <<"<U+104B4>">>>>, <<"<U+104DD>", <<"<U+104B5>">>>>,
      <<"<U+104DE>", <<"<U+104B6>">>>>, <<"<U+104DF>", <<"<U+104B7>">>>>,
      <<"<U+104E0>", <<"<U+104B8>">>>>, <<"<U+104E1>", <<"<U+104B9>">>>>,
      <<"<U+104E2>", <<"<U+104BA>">>>>, <<"<U+104E3>", <<"<U+104BB>">>>>,
      <<"<U+104E4>", <<"<U+104BC>">>>>, <<"<U+104E5>", <<"<U+104BD>">>>>,
      <<"<U+104E6>", <<"<U+104BE>">>>>, <<"<U+104E7>", <<"<U+104BF>">>>>,
      <<"<U+104E8>", <<"<U+104C0>">>>>, <<"<U+104E9>", <<"<U+104C1>">>>>,
      <<"<U+104EA>", <<"<U+104C2>">>>>, <<"<U+104EB>", <<"<U+104C3>">>>>,
      <<"<U+104EC>", <<"<U+104C4>">>>>, <<"<U+104ED>", <<"<U+104C5>">>>>,
      <<"<U+104EE>", <<"<U+104C6>">>>>, <<"<U+104EF>", <<"<U+104C7>">>>>,
      <<"<U+104F0>", <<"<U+104C8>">>>>, <<"<U+104F1>", <<"<U+104C9>">>>>,
      <<"<U+104F2>", <<"<U+104CA>">>>>, <<"<U+104F3>", <<"<U+104CB>">>>>,
      <<"<U+104F4>", <<"<U+104CC>">>>>, <<"<U+104F5>", <<"<U+104CD>">>>>,
      <<"<U+104F6>", <<"<U+104CE>">>>>, <<"<U+104F7>", <<"<U+104CF>">>>>,
      <<"<U+104F8>", <<"<U+104D0>">>>>, <<"<U+104F9>", <<"<U+104D1>">>>>,
      <<"<U+104FA>", <<"<U+104D2>">>>>, <<"<U+104FB>", <<"<U+104D3>">>>>,
      <<"<U+10597>", <<"<U+10570>">>>>, <<"<U+10598>", <<"<U+10571>">>>>,
      <<"<U+10599>", <<"<U+10572>">>>>, <<"<U+1059A>", <<"<U+10573>">>>>,
      <<"<U+1059B>", <<"<U+10574>">>>>, <<"<U+1059C>", <<"<U+10575>">>>>,
      <<"<U+1059D>", <<"<U+10576>">>>>, <<"<U+1059E>", <<"<U+10577>">>>>,
      <<"<U+1059F>", <<"<U+10578>">>>>, <<"<U+105A0>", <<"<U+10579>">>>>,
      <<"<U+105A1>", <<"<U+1057A>">>>>, <<"<U+105A3>", <<"<U+1057C>">>>>,
      <<"<U+105A4>", <<"<U+1057D>">>>>, <<"<U+105A5>", <<"<U+1057E>">>>>,
      <<"<U+105A6>", <<"<U+1057F>">>>>, <<"<U+105A7>", <<"<U+10580>">>>>,
      <<"<U+105A8>", <<"<U+10581>">>>>, <<"<U+105A9>", <<"<U+10582>">>>>,
      <<"<U+105AA>", <<"<U+10583>">>>>, <<"<U+105AB>", <<"<U+10584>">>>>,
      <<"<U+105AC>", <<"<U+10585>">>>>, <<"<U+105AD>", <<"<U+10586>">>>>,
      <<"<U+105AE>", <<"<U+10587>">>>>, <<"<U+105AF>", <<"<U+10588>">>>>,
      <<"<U+105B0>", <<"<U+10589>">>>>, <<"<U+105B1>", <<"<U+1058A>">>>>,
      <<"<U+105B3>", <<"<U+1058C>">>>>, <<"<U+105B4>", <<"<U+1058D>">>>>,
      <<"<U+105B5>", <<"<U+1058E>">>>>, <<"<U+105B6>", <<"<U+1058F>">>>>,
      <<"<U+105B7>", <<"<U+10590>">>>>, <<"<U+105B8>", <<"<U+10591>">>>>,
      <<"<U+105B9>", <<"<U+10592>">>>>, <<"<U+105BB>", <<"<U+10594>">>>>,
      <<"<U+105BC>", <<"<U+10595>">>>>, <<"<U+10CC0>", <<"<U+10C80>">>>>,
      <<"<U+10CC1>", <<"<U+10C81>">>>>, <<"<U+10CC2>", <<"<U+10C82>">>>>,
      <<"<U+10CC3>", <<"<U+10C83>">>>>, <<"<U+10CC4>", <<"<U+10C84>">>>>,
      <<"<U+10CC5>", <<"<U+10C85>">>>>, <<"<U+10CC6>", <<"<U+10C86>">>>>,
      <<"<U+10CC7>", <<"<U+10C87>">>>>, <<"<U+10CC8>", <<"<U+10C88>">>>>,
      <<"<U+10CC9>", <<"<U+10C89>">>>>, <<"<U+10CCA>", <<"<U+10C8A>">>>>,
      <<"<U+10CCB>", <<"<U+10C8B>">>>>, <<"<U+10CCC>", <<"<U+10C8C>">>>>,
      <<"<U+10CCD>", <<"<U+10C8D>">>>>, <<"<U+10CCE>", <<"<U+10C8E>">>>>,
      <<"<U+10CCF>", <<"<U+10C8F>">>>>, <<"<U+10CD0>", <<"<U+10C90>">>>>,
      <<"<U+10CD1>", <<"<U+10C91>">>>>, <<"<U+10CD2>", <<"<U+10C92>">>>>,
      <<"<U+10CD3>", <<"<U+10C93>">>>>, <<"<U+10CD4>", <<"<U+10C94>">>>>,
      <<"<U+10CD5>", <<"<U+10C95>">>>>, <<"<U+10CD6>", <<"<U+10C96>">>>>,
      <<"<U+10CD7>", <<"<U+10C97>">>>>, <<"<U+10CD8>", <<"<U+10C98>">>>>,
      <<"<U+10CD9>", <<"<U+10C99>">>>>, <<"<U+10CDA>", <<"<U+10C9A>">>>>,
      <<"<U+10CDB>", <<"<U+10C9B>">>>>, <<"<U+10CDC>", <<"<U+10C9C>">>>>,
      <<"<U+10CDD>", <<"<U+10C9D>">>>>, <<"<U+10CDE>", <<"<U+10C9E>">>>>,
      <<"<U+10CDF>", <<"<U+10C9F>">>>>, <<"<U+10CE0>", <<"<U+10CA0>">>>>,
      <<"<U+10CE1>", <<"<U+10CA1>">>>>, <<"<U+10CE2>", <<"<U+10CA2>">>>>,
      <<"<U+10CE3>", <<"<U+10CA3>">>>>, <<"<U+10CE4>", <<"<U+10CA4>">>>>,
      <<"<U+10CE5>", <<"<U+10CA5>">>>>, <<"<U+10CE6>", <<"<U+10CA6>">>>>,
      <<"<U+10CE7>", <<"<U+10CA7>">>>>, <<"<U+10CE8>", <<"<U+10CA8>">>>>,
      <<"<U+10CE9>", <<"<U+10CA9>">>>>, <<"<U+10CEA>", <<"<U+10CAA>">>>>,
      <<"<U+10CEB>", <<"<U+10CAB>">>>>, <<"<U+10CEC>", <<"<U+10CAC>">>>>,
      <<"<U+10CED>", <<"<U+10CAD>">>>>, <<"<U+10CEE>", <<"<U+10CAE>">>>>,
      <<"<U+10CEF>", <<"<U+10CAF>">>>>, <<"<U+10CF0>", <<"<U+10CB0>">>>>,
      <<"<U+10CF1>", <<"<U+10CB1>">>>>, <<"<U+10CF2>", <<"<U+10CB2>">>>>,
      <<"<U+118C0>", <<"<U+118A0>">>>>, <<"<U+118C1>", <<"<U+118A1>">>>>,
      <<"<U+118C2>", <<"<U+118A2>">>>>, <<"<U+118C3>", <<"<U+118A3>">>>>,
      <<"<U+118C4>", <<"<U+118A4>">>>>, <<"<U+118C5>", <<"<U+118A5>">>>>,
      <<"<U+118C6>", <<"<U+118A6>">>>>, <<"<U+118C7>", <<"<U+118A7>">>>>,
      <<"<U+118C8>", <<"<U+118A8>">>>>, <<"<U+118C9>", <<"<U+118A9>">>>>,
      <<"<U+118CA>", <<"<U+118AA>">>>>, <<"<U+118CB>", <<"<U+118AB>">>>>,
      <<"<U+118CC>", <<"<U+118AC>">>>>, <<"<U+118CD>", <<"<U+118AD>">>>>,
      <<"<U+118CE>", <<"<U+118AE>">>>>, <<"<U+118CF>", <<"<U+118AF>">>>>,
      <<"<U+118D0>", <<"<U+118B0>">>>>, <<"<U+118D1>", <<"<U+118B1>">>>>,
      <<"<U+118D2>", <<"<U+118B2>">>>>, <<"<U+118D3>", <<"<U+118B3>">>>>,
      <<"<U+118D4>", <<"<U+118B4>">>>>, <<"<U+118D5>", <<"<U+118B5>">>>>,
      <<"<U+118D6>", <<"<U+118B6>">>>>, <<"<U+118D7>", <<"<U+118B7>">>>>,
      <<"<U+118D8>", <<"<U+118B8>">>>>, <<"<U+118D9>", <<"<U+118B9>">>>>,
      <<"<U+118DA>", <<"<U+118BA>">>>>, <<"<U+118DB>", <<"<U+118BB>">>>>,
      <<"<U+118DC>", <<"<U+118BC>">>>>, <<"<U+118DD>", <<"<U+118BD>">>>>,
      <<"<U+118DE>", <<"<U+118BE>">>>>, <<"<U+118DF>", <<"<U+118BF>">>>>,
      <<"<U+16E60>", <<"<U+16E40>">>>>, <<"<U+16E61>", <<"<U+16E41>">>>>,
      <<"<U+16E62>", <<"<U+16E42>">>>>, <<"<U+16E63>", <<"<U+16E43>">>>>,
      <<"<U+16E64>", <<"<U+16E44>">>>>, <<"<U+16E65>", <<"<U+16E45>">>>>,
      <<"<U+16E66>", <<"<U+16E46>">>>>, <<"<U+16E67>", <<"<U+16E47>">>>>,
      <<"<U+16E68>", <<"<U+16E48>">>>>, <<"<U+16E69>", <<"<U+16E49>">>>>,
      <<"<U+16E6A>", <<"<U+16E4A>">>>>, <<"<U+16E6B>", <<"<U+16E4B>">>>>,
      <<"<U+16E6C>", <<"<U+16E4C>">>>>, <<"<U+16E6D>", <<"<U+16E4D>">>>>,
      <<"<U+16E6E>", <<"<U+16E4E>">>>>, <<"<U+16E6F>", <<"<U+16E4F>">>>>,
      <<"<U+16E70>", <<"<U+16E50>">>>>, <<"<U+16E71>", <<"<U+16E51>">>>>,
      <<"<U+16E72>", <<"<U+16E52>">>>>, <<"<U+16E73>", <<"<U+16E53>">>>>,
      <<"<U+16E74>", <<"<U+16E54>">>>>, <<"<U+16E75>", <<"<U+16E55>">>>>,
      <<"<U+16E76>", <<"<U+16E56>">>>>, <<"<U+16E77>", <<"<U+16E57>">>>>,
      <<"<U+16E78>", <<"<U+16E58>">>>>, <<"<U+16E79>", <<"<U+16E59>">>>>,
      <<"<U+16E7A>", <<"<U+16E5A>">>>>, <<"<U+16E7B>", <<"<U+16E5B>">>>>,
      <<"<U+16E7C>", <<"<U+16E5C>">>>>, <<"<U+16E7D>", <<"<U+16E5D>">>>>,
      <<"<U+16E7E>", <<"<U+16E5E>">>>>, <<"<U+16E7F>", <<"<U+16E5F>">>>>,
      <<"<U+1E922>", <<"<U+1E900>">>>>, <<"<U+1E923>", <<"<U+1E901>">>>>,
      <<"<U+1E924>", <<"<U+1E902>">>>>, <<"<U+1E925>", <<"<U+1E903>">>>>,
      <<"<U+1E926>", <<"<U+1E904>">>>>, <<"<U+1E927>", <<"<U+1E905>">>>>,
      <<"<U+1E928>", <<"<U+1E906>">>>>, <<"<U+1E929>", <<"<U+1E907>">>>>,
      <<"<U+1E92A>", <<"<U+1E908>">>>>, <<"<U+1E92B>", <<"<U+1E909>">>>>,
      <<"<U+1E92C>", <<"<U+1E90A>">>>>, <<"<U+1E92D>", <<"<U+1E90B>">>>>,
      <<"<U+1E92E>", <<"<U+1E90C>">>>>, <<"<U+1E92F>", <<"<U+1E90D>">>>>,
      <<"<U+1E930>", <<"<U+1E90E>">>>>, <<"<U+1E931>", <<"<U+1E90F>">>>>,
      <<"<U+1E932>", <<"<U+1E910>">>>>, <<"<U+1E933>", <<"<U+1E911>">>>>,
      <<"<U+1E934>", <<"<U+1E912>">>>>, <<"<U+1E935>", <<"<U+1E913>">>>>,
      <<"<U+1E936>", <<"<U+1E914>">>>>, <<"<U+1E937>", <<"<U+1E915>">>>>,
      <<"<U+1E938>", <<"<U+1E916>">>>>, <<"<U+1E939>", <<"<U+1E917>">>>>,
      <<"<U+1E93A>", <<"<U+1E918>">>>>, <<"<U+1E93B>", <<"<U+1E919>">>>>,
      <<"<U+1E93C>", <<"<U+1E91A>">>>>, <<"<U+1E93D>", <<"<U+1E91B>">>>>,
      <<"<U+1E93E>", <<"<U+1E91C>">>>>, <<"<U+1E93F>", <<"<U+1E91D>">>>>,
      <<"<U+1E940>", <<"<U+1E91E>">>>>, <<"<U+1E941>", <<"<U+1E91F>">>>>,
      <<"<U+1E942>", <<"<U+1E920>">>>>, <<"<U+1E943>", <<"<U+1E921>">>>>>>

UpperForms ==
    [c \in {UpperPairs[i][1] : i \in 1..Len(UpperPairs)} |->
        UpperPairs[CHOOSE i \in 1..Len(UpperPairs) : UpperPairs[i][1] = c][2]]

UpperChar(c) == IF c \in DOMAIN UpperForms THEN UpperForms[c] ELSE <<c>>

\* s.upper()
RECURSIVE Upper(_)
Upper(s) == IF s = <<>> THEN <<>> ELSE UpperChar(s[1]) \o Upper(Tail(s))

\* the price labels as the API writes them, and the default of .get
Low == <<"l", "o", "w">>

High == <<"h", "i", "g", "h">>

LowInCapitals == <<"L", "O", "W">>

Unknown == <<"u", "n", "k", "n", "o", "w", "n">>

RangeSep == <<" ", "-", " ">>

EndOfDayLabel == <<"2", "3", ":", "5", "9">>

DayMinutes == 24 * 60

\* the periods of every day record dated `date`, in the order the nested
\* loops `for day in forecasts: if day.get("date") == date: for period in
\* day.get("forecast", [])` visit them
RECURSIVE PeriodsOn(_, _)
PeriodsOn(forecasts, date) ==
    IF forecasts = <<>> THEN <<>>
    ELSE LET day == Head(forecasts)
         IN  (IF Has(day, "date") /\ day.date = date
              THEN Get(day, "forecast", <<>>) ELSE <<>>)
                 \o PeriodsOn(Tail(forecasts), date)

\* the day records dated `date`, in list order
RECURSIVE DaysOn(_, _)
DaysOn(forecasts, date) ==
    IF forecasts = <<>> THEN <<>>
    ELSE (IF Has(Head(forecasts), "date") /\ Head(forecasts).date = date
          THEN <<Head(forecasts)>> ELSE <<>>)
             \o DaysOn(Tail(forecasts), date)

---------------------------------------------------------------------------
(* The config entry and AMBDataUpdateCoordinator.__init__ *)

CONF_API_URL == "api_url"

CONF_UPDATE_INTERVAL == "update_interval"

DEFAULT_API_URL == "https://amb-dynamic-current-api.uschti.ch/amb-data"

\* DEFAULT_UPDATE_INTERVAL.total_seconds(): timedelta(hours=2)
DefaultUpdateIntervalSeconds == 2 * 3600

NoEntry == [present |-> FALSE]

Entry(d, o) == [present |-> TRUE, data |-> d, options |-> o]

\* the entry the flow without a form creates
DefaultEntry ==
    Entry([api_url |-> DEFAULT_API_URL,
           update_interval |-> DefaultUpdateIntervalSeconds], <<>>)

\* self.api_url = config_entry.data.get(CONF_API_URL, DEFAULT_API_URL)
CoordinatorApiUrl(e) == Get(e.data, CONF_API_URL, DEFAULT_API_URL)

\* timedelta(seconds=config_entry.data.get(CONF_UPDATE_INTERVAL, ...))
CoordinatorUpdateInterval(e) ==
    Get(e.data, CONF_UPDATE_INTERVAL, DefaultUpdateIntervalSeconds)

\* the coordinator set up from the default entry
Installed ==
    /\ entry = DefaultEntry
    /\ api_url = CoordinatorApiUrl(entry)
    /\ update_interval = CoordinatorUpdateInterval(entry)
    /\ building = None

---------------------------------------------------------------------------
(* sensor.py, AMBCurrentPriceSensor *)

\* one turn of the period loop: skipped, raising in the unpacking of the
\* split, or the bounds of the period
PriceSensorSlot(period) ==
    Let(Get(period, "hour_range", <<>>), LAMBDA rng :
    Let(Split(rng, RangeSep), LAMBDA parts :
        IF ~Contains(rng, RangeSep) THEN [k |-> "skip"]
        ELSE IF Len(parts) # 2 THEN [k |-> "raise"]
        ELSE [k |-> "slot",
              start_str |-> parts[1],
              end_str |-> parts[2],
              start_m |-> PriceSensorTimeToMinutes(PyStr(parts[1])).v,
              end_m |-> IF parts[2] = EndOfDayLabel THEN 24 * 60
                        ELSE PriceSensorTimeToMinutes(PyStr(parts[2])).v]))

\* the scan with a period holding its end minute as well
RECURSIVE PriceSensorScanCurrentClosed(_, _, _)
PriceSensorScanCurrentClosed(periods, i, cur) ==
    IF i > Len(periods) THEN Ok([k |-> "none"])
    ELSE Let(PriceSensorSlot(periods[i]), LAMBDA s :
             IF s.k = "skip" THEN PriceSensorScanCurrentClosed(periods, i + 1, cur)
             ELSE IF s.k = "raise" THEN Raise("ValueError")
             ELSE IF s.start_m <= cur /\ cur <= s.end_m
             THEN Ok([k |-> "found", slot |-> s, period |-> periods[i]])
             ELSE PriceSensorScanCurrentClosed(periods, i + 1, cur))

RECURSIVE PriceSensorScanCurrent(_, _, _)
PriceSensorScanCurrent(periods, i, cur) ==
    IF i > Len(periods) THEN Ok([k |-> "none"])
    ELSE Let(PriceSensorSlot(periods[i]), LAMBDA s :
             IF s.k = "skip" THEN PriceSensorScanCurrent(periods, i + 1, cur)
             ELSE IF s.k = "raise" THEN Raise("ValueError")
             ELSE IF s.start_m <= cur /\ cur < s.end_m
             THEN Ok([k |-> "found", slot |-> s, period |-> periods[i]])
             ELSE PriceSensorScanCurrent(periods, i + 1, cur))

\* _calculate_current_price
PriceSensorCalculateCurrentPrice(d, n) ==
    Let(PriceSensorScanCurrent(
            PeriodsOn(Get(d, "forecasts", <<>>), TodayStr(n)), 1,
            CurrentMinutes(n)), LAMBDA r :
        IF r.tag = "raise" THEN r
        ELSE IF r.v.k = "none" THEN Ok(None)
        ELSE Ok(PyStr(Get(r.v.period, "price", Unknown))))

\* native_value: None without data or without a price, else the price
\* upper-cased (`price.upper() if price else None`)
PriceSensorNativeValue(d, n) ==
    IF Falsy(d) THEN Ok(None)
    ELSE Let(PriceSensorCalculateCurrentPrice(d, n), LAMBDA r :
             IF r.tag = "raise" \/ r.v = None THEN r
             ELSE IF r.v.s = <<>> THEN Ok(None)
             ELSE Ok(PyStr(Upper(r.v.s))))

\* _get_current_period_info
PriceSensorGetCurrentPeriodInfo(d, n) ==
    Let(PriceSensorScanCurrent(
            PeriodsOn(Get(d, "forecasts", <<>>), TodayStr(n)), 1,
            CurrentMinutes(n)), LAMBDA r :
        IF r.tag = "raise" THEN r
        ELSE IF r.v.k = "none" THEN Ok(None)
        ELSE Ok([t |-> "dict",
                 start |-> r.v.slot.start_str,
                 end |-> r.v.slot.end_str,
                 price |-> IF Has(r.v.period, "price")
                           THEN PyStr(r.v.period.price) ELSE None]))

\* the first loop of _find_next_change: today's first period, in list
\* order, that starts after now
RECURSIVE PriceSensorScanNext(_, _, _)
PriceSensorScanNext(periods, i, cur) ==
    IF i > Len(periods) THEN Ok([k |-> "none"])
    ELSE Let(PriceSensorSlot(periods[i]), LAMBDA s :
             IF s.k = "skip" THEN PriceSensorScanNext(periods, i + 1, cur)
             ELSE IF s.k = "raise" THEN Raise("ValueError")
             ELSE IF s.start_m > cur
             THEN Ok([k |-> "found", slot |-> s, period |-> periods[i]])
             ELSE PriceSensorScanNext(periods, i + 1, cur))

NextChangeDict(start_str, period, date) ==
    [t |-> "dict",
     time |-> start_str,
     price |-> IF Has(period, "price") THEN PyStr(period.price) ELSE None,
     date |-> date]

\* the second loop of _find_next_change: the first period of tomorrow's
\* record; an empty record ends the search
RECURSIVE PriceSensorTomorrowFirst(_, _)
PriceSensorTomorrowFirst(days, date) ==
    IF days = <<>> THEN Ok(None)
    ELSE Let(Get(Head(days), "forecast", <<>>), LAMBDA fc :
             IF fc = <<>> THEN Ok(None)
             ELSE Let(PriceSensorSlot(fc[1]), LAMBDA s :
                      IF s.k = "skip" THEN PriceSensorTomorrowFirst(Tail(days), date)
                      ELSE IF s.k = "raise" THEN Raise("ValueError")
                      ELSE Ok(NextChangeDict(s.start_str, fc[1], date))))

\* _find_next_change without its second loop
PriceSensorFindNextChangeTodayOnly(d, n) ==
    Let(PriceSensorScanNext(PeriodsOn(Get(d, "forecasts", <<>>), TodayStr(n)),
                            1, CurrentMinutes(n)), LAMBDA r :
        IF r.tag = "raise" THEN r
        ELSE IF r.v.k = "found"
        THEN Ok(NextChangeDict(r.v.slot.start_str, r.v.period, TodayStr(n)))
        ELSE Ok(None))

\* _find_next_change
PriceSensorFindNextChange(d, n) ==
    Let(Get(d, "forecasts", <<>>), LAMBDA forecasts :
    Let(PriceSensorScanNext(PeriodsOn(forecasts, TodayStr(n)), 1,
                            CurrentMinutes(n)), LAMBDA r :
        IF r.tag = "raise" THEN r
        ELSE IF r.v.k = "found"
        THEN Ok(NextChangeDict(r.v.slot.start_str, r.v.period, TodayStr(n)))
        ELSE PriceSensorTomorrowFirst(DaysOn(forecasts, TomorrowStr(n)),
                                      TomorrowStr(n))))

---------------------------------------------------------------------------
(* sensor.py, AMBCurrentDurationSensor *)

\* the turn of the loop with "23:59" read as any other label
DurationSensorSlotPlainEnd(period) ==
    Let(Get(period, "hour_range", <<>>), LAMBDA rng :
    Let(Split(rng, RangeSep), LAMBDA parts :
        IF ~Contains(rng, RangeSep) THEN [k |-> "skip"]
        ELSE IF Len(parts) # 2 THEN [k |-> "raise"]
        ELSE [k |-> "slot",
              start_m |-> DurationSensorTimeToMinutes(PyStr(parts[1])).v,
              end_m |-> DurationSensorTimeToMinutes(PyStr(parts[2])).v,
              price |-> Get(period, "price", Unknown)]))

\* one turn of the loop of _build_schedule_for_date
DurationSensorSlot(period) ==
    Let(Get(period, "hour_range", <<>>), LAMBDA rng :
    Let(Split(rng, RangeSep), LAMBDA parts :
        IF ~Contains(rng, RangeSep) THEN [k |-> "skip"]
        ELSE IF Len(parts) # 2 THEN [k |-> "raise"]
        ELSE [k |-> "slot",
              start_m |-> DurationSensorTimeToMinutes(PyStr(parts[1])).v,
              end_m |-> IF parts[2] = EndOfDayLabel THEN 24 * 60
                        ELSE DurationSensorTimeToMinutes(PyStr(parts[2])).v,
              price |-> Get(period, "price", Unknown)]))

\* result.append(...) for every period with a range, in list order
RECURSIVE DurationSensorCollect(_, _)
DurationSensorCollect(periods, i) ==
    IF i > Len(periods) THEN Ok(<<>>)
    ELSE Let(DurationSensorSlot(periods[i]), LAMBDA s :
         Let(DurationSensorCollect(periods, i + 1), LAMBDA rest :
             IF s.k = "raise" THEN Raise("ValueError")
             ELSE IF rest.tag = "raise" THEN rest
             ELSE IF s.k = "skip" THEN rest
             ELSE Ok(<<[start_m |-> s.start_m, end_m |-> s.end_m,
                        price |-> s.price]>> \o rest.v)))

\* one element put in its place in a list sorted by start_m, after the
\* elements with the same start_m
RECURSIVE InsertByStart(_, _)
InsertByStart(sorted, x) ==
    IF sorted = <<>> THEN <<x>>
    ELSE IF x.start_m < Head(sorted).start_m THEN <<x>> \o sorted
    ELSE <<Head(sorted)>> \o InsertByStart(Tail(sorted), x)

\* result.sort(key=lambda x: x["start_m"]): a stable sort
RECURSIVE SortByStart(_)
SortByStart(s) ==
    IF s = <<>> THEN <<>>
    ELSE InsertByStart(SortByStart(SubSeq(s, 1, Len(s) - 1)), s[Len(s)])

\* _build_schedule_for_date: the first record of the date, normalised and
\* sorted; [] when the date is absent
DurationSensorBuildScheduleForDate(forecasts, date_str) ==
    Let(DaysOn(forecasts, date_str), LAMBDA days :
        IF days = <<>> THEN Ok(<<>>)
        ELSE Let(DurationSensorCollect(Get(days[1], "forecast", <<>>), 1),
                 LAMBDA r : IF r.tag = "raise" THEN r
                            ELSE Ok(SortByStart(r.v))))

\* the index of the first slot holding current_minutes, 0 for None
CurrentSlotIndex(sched, cur) ==
    IF \E i \in 1..Len(sched) : sched[i].start_m <= cur /\ cur < sched[i].end_m
    THEN CHOOSE i \in 1..Len(sched) :
            /\ sched[i].start_m <= cur /\ cur < sched[i].end_m
            /\ \A k \in 1..(i - 1) :
                   ~(sched[k].start_m <= cur /\ cur < sched[k].end_m)
    ELSE 0

\* the merge over today's slots looking at the price alone
RECURSIVE MergeTodayAnyStart(_, _, _, _)
MergeTodayAnyStart(sched, i, merged_end, price) ==
    IF i > Len(sched) THEN merged_end
    ELSE IF sched[i].price = price
    THEN MergeTodayAnyStart(sched, i + 1, sched[i].end_m, price)
    ELSE merged_end

\* while i < len(today_sched): extend while contiguous and same price
RECURSIVE MergeToday(_, _, _, _)
MergeToday(sched, i, merged_end, price) ==
    IF i > Len(sched) THEN merged_end
    ELSE IF sched[i].start_m = merged_end /\ sched[i].price = price
    THEN MergeToday(sched, i + 1, sched[i].end_m, price)
    ELSE merged_end

\* the inner while over tomorrow's slots: prev_end = merged_end - 24 * 60
RECURSIVE ChainTomorrow(_, _, _, _)
ChainTomorrow(sched, j, merged_end, price) ==
    IF j > Len(sched) THEN merged_end
    ELSE IF sched[j].start_m = merged_end - 24 * 60 /\ sched[j].price = price
    THEN ChainTomorrow(sched, j + 1, 24 * 60 + sched[j].end_m, price)
    ELSE merged_end

\* the outer while looking at the price of tomorrow's first slot alone
MergeTomorrowAnyStart(sched, merged_end, price) ==
    IF sched = <<>> THEN merged_end
    ELSE IF sched[1].price = price
    THEN ChainTomorrow(sched, 2, 24 * 60 + sched[1].end_m, price)
    ELSE merged_end

\* the outer while over tomorrow's slots: only j = 0 is looked at
MergeTomorrow(sched, merged_end, price) ==
    IF sched = <<>> THEN merged_end
    ELSE IF sched[1].start_m = 0 /\ sched[1].price = price
    THEN ChainTomorrow(sched, 2, 24 * 60 + sched[1].end_m, price)
    ELSE merged_end

\* the end of the merged block, in minutes from today's midnight; None
\* when today has no slot holding now
DurationSensorMergedEnd(d, n) ==
    Let(Get(d, "forecasts", <<>>), LAMBDA forecasts :
    Let(DurationSensorBuildScheduleForDate(forecasts, TodayStr(n)),
        LAMBDA today_sched :
        IF today_sched.tag = "raise" THEN today_sched
        ELSE IF today_sched.v = <<>> THEN Ok(None)
        ELSE Let(CurrentSlotIndex(today_sched.v, CurrentMinutes(n)), LAMBDA idx :
             IF idx = 0 THEN Ok(None)
             ELSE Let(today_sched.v[idx].price, LAMBDA current_price :
                  Let(MergeToday(today_sched.v, idx + 1,
                                 today_sched.v[idx].end_m, current_price),
                      LAMBDA merged_end :
                      IF merged_end >= 24 * 60
                      THEN Let(DurationSensorBuildScheduleForDate(
                                   forecasts, TomorrowStr(n)),
                               LAMBDA tomorrow_sched :
                               IF tomorrow_sched.tag = "raise"
                               THEN tomorrow_sched
                               ELSE Ok(PyInt(MergeTomorrow(
                                       tomorrow_sched.v, merged_end,
                                       current_price))))
                      ELSE Ok(PyInt(merged_end)))))))

\* _calculate_merged_remaining: merged_end - current_minutes
DurationSensorCalculateMergedRemaining(d, n) ==
    Let(DurationSensorMergedEnd(d, n), LAMBDA r :
        IF r.tag = "raise" \/ r.v = None THEN r
        ELSE Ok(PyInt(r.v.n - CurrentMinutes(n))))

Max(a, b) == IF a >= b THEN a ELSE b

\* native_value: None without data, else max(0, remaining)
DurationSensorNativeValue(d, n) ==
    IF Falsy(d) THEN Ok(None)
    ELSE Let(DurationSensorCalculateMergedRemaining(d, n), LAMBDA r :
             IF r.tag = "raise" \/ r.v = None THEN r
             ELSE Ok(PyInt(Max(0, r.v.n))))

---------------------------------------------------------------------------
(* coordinator.py: the schedule helpers and _process_data *)

\* one turn of the period loops of the coordinator
CoordinatorSlot(period) ==
    Let(Get(period, "hour_range", <<>>), LAMBDA rng :
    Let(Split(rng, RangeSep), LAMBDA parts :
        IF ~Contains(rng, RangeSep) THEN [k |-> "skip"]
        ELSE IF Len(parts) # 2 THEN [k |-> "raise"]
        ELSE [k |-> "slot",
              start_str |-> parts[1],
              end_str |-> parts[2],
              start_m |-> CoordinatorTimeToMinutes(PyStr(parts[1])).v,
              end_m |-> IF parts[2] = EndOfDayLabel THEN 24 * 60
                        ELSE CoordinatorTimeToMinutes(PyStr(parts[2])).v]))

RECURSIVE CoordinatorScanCurrent(_, _, _)
CoordinatorScanCurrent(periods, i, cur) ==
    IF i > Len(periods) THEN Ok([k |-> "none"])
    ELSE Let(CoordinatorSlot(periods[i]), LAMBDA s :
             IF s.k = "skip" THEN CoordinatorScanCurrent(periods, i + 1, cur)
             ELSE IF s.k = "raise" THEN Raise("ValueError")
             ELSE IF s.start_m <= cur /\ cur < s.end_m
             THEN Ok([k |-> "found", slot |-> s, period |-> periods[i]])
             ELSE CoordinatorScanCurrent(periods, i + 1, cur))

\* _find_current_period
CoordinatorFindCurrentPeriod(forecasts, n) ==
    Let(CoordinatorScanCurrent(PeriodsOn(forecasts, TodayStr(n)), 1,
                               CurrentMinutes(n)), LAMBDA r :
        IF r.tag = "raise" THEN r
        ELSE IF r.v.k = "none" THEN Ok(None)
        ELSE Ok([t |-> "dict",
                 price |-> IF Has(r.v.period, "price")
                           THEN PyStr(r.v.period.price) ELSE None,
                 start |-> r.v.slot.start_str,
                 end |-> r.v.slot.end_str]))

\* the scan taking a period that starts at the current minute as well
RECURSIVE CoordinatorScanNextFromNow(_, _, _)
CoordinatorScanNextFromNow(periods, i, cur) ==
    IF i > Len(periods) THEN Ok([k |-> "none"])
    ELSE Let(CoordinatorSlot(periods[i]), LAMBDA s :
             IF s.k = "skip" THEN CoordinatorScanNextFromNow(periods, i + 1, cur)
             ELSE IF s.k = "raise" THEN Raise("ValueError")
             ELSE IF s.start_m >= cur
             THEN Ok([k |-> "found", slot |-> s, period |-> periods[i]])
             ELSE CoordinatorScanNextFromNow(periods, i + 1, cur))

RECURSIVE CoordinatorScanNext(_, _, _)
CoordinatorScanNext(periods, i, cur) ==
    IF i > Len(periods) THEN Ok([k |-> "none"])
    ELSE Let(CoordinatorSlot(periods[i]), LAMBDA s :
             IF s.k = "skip" THEN CoordinatorScanNext(periods, i + 1, cur)
             ELSE IF s.k = "raise" THEN Raise("ValueError")
             ELSE IF s.start_m > cur
             THEN Ok([k |-> "found", slot |-> s, period |-> periods[i]])
             ELSE CoordinatorScanNext(periods, i + 1, cur))

\* the second loop of the coordinator's _find_next_change: an empty record
\* or a first period without a range is passed over
RECURSIVE CoordinatorTomorrowFirst(_, _)
CoordinatorTomorrowFirst(days, date) ==
    IF days = <<>> THEN Ok(None)
    ELSE Let(Get(Head(days), "forecast", <<>>), LAMBDA fc :
             IF fc = <<>> THEN CoordinatorTomorrowFirst(Tail(days), date)
             ELSE Let(CoordinatorSlot(fc[1]), LAMBDA s :
                      IF s.k = "skip" THEN CoordinatorTomorrowFirst(Tail(days), date)
                      ELSE IF s.k = "raise" THEN Raise("ValueError")
                      ELSE Ok(NextChangeDict(s.start_str, fc[1], date))))

\* _find_next_change
CoordinatorFindNextChange(forecasts, n) ==
    Let(CoordinatorScanNext(PeriodsOn(forecasts, TodayStr(n)), 1,
                            CurrentMinutes(n)), LAMBDA r :
        IF r.tag = "raise" THEN r
        ELSE IF r.v.k = "found"
        THEN Ok(NextChangeDict(r.v.slot.start_str, r.v.period, TodayStr(n)))
        ELSE CoordinatorTomorrowFirst(DaysOn(forecasts, TomorrowStr(n)),
                                      TomorrowStr(n)))

\* _get_day_schedule
GetDaySchedule(forecasts, date_str) ==
    Let(DaysOn(forecasts, date_str), LAMBDA days :
        IF days = <<>> THEN <<>> ELSE Get(days[1], "forecast", <<>>))

\* _process_data: the snapshot built from the decoded body at time n
ProcessData(raw_data, n) ==
    Let(Get(raw_data, "current_price", "unknown"), LAMBDA current_price :
    Let(Get(raw_data, "forecasts", <<>>), LAMBDA forecasts :
    Let([current_price |-> current_price,
         forecasts |-> forecasts,
         last_updated |-> IsoFormat(n),
         today_schedule |-> GetDaySchedule(forecasts, TodayStr(n)),
         tomorrow_schedule |-> GetDaySchedule(forecasts, TomorrowStr(n))],
        LAMBDA processed_data :
    Let(CoordinatorFindCurrentPeriod(forecasts, n), LAMBDA current_period :
        IF current_period.tag = "raise" THEN current_period
        ELSE IF current_period.v = None THEN Ok(processed_data)
        ELSE Let(CoordinatorFindNextChange(forecasts, n), LAMBDA next_change :
                 IF next_change.tag = "raise" THEN next_change
                 ELSE Ok(processed_data @@
                         [current_period |-> current_period.v,
                          next_change |-> next_change.v]))))))

---------------------------------------------------------------------------
(* The body the API serves, written from a schedule in minutes *)

MaxWindows == 3

Prices == {Low, High}

\* "HH:MM" of a minute of the day; the API writes the end of the day "23:59"
StartLabel(m) == Tok(m \div 60, m % 60, TRUE)

EndLabel(m) == IF m = 24 * 60 THEN EndOfDayLabel ELSE StartLabel(m)

WirePeriod(w) ==
    [hour_range |-> StartLabel(w.s) \o RangeSep \o EndLabel(w.e),
     price |-> w.p]

WireDay(d, wins) ==
    [date |-> DateStr(d),
     forecast |-> [i \in 1..Len(wins) |-> WirePeriod(wins[i])]]

Windows(cuts) ==
    {[s |-> ab[1], e |-> ab[2], p |-> q] :
        ab \in {x \in cuts \X cuts : x[1] < x[2]}, q \in Prices}

Disjoint(w1, w2) == w1.e <= w2.s \/ w2.e <= w1.s

\* the well-formed days over the cut points: start < end, no two windows
\* overlap; the windows in any order
DaySeqs(cuts, n) ==
    {ws \in SeqsUpTo(Windows(cuts), n) :
        /\ \A i \in 1..Len(ws) : ws[i].s < ws[i].e
        /\ \A i, j \in 1..Len(ws) : i < j => Disjoint(ws[i], ws[j])}

DayCuts == {0, 360, 600, 900, 24 * 60}

LateCuts == {0, 1380, 24 * 60}

EarlyCuts == {0, 60, 24 * 60}

NoTomorrow == [present |-> FALSE, wins |-> <<>>, first |-> FALSE]

Tomorrow(wins, first) == [present |-> TRUE, wins |-> wins, first |-> first]

\* a day in full with at most a first hour of tomorrow; the last hour of a
\* day with any tomorrow, listed before or after today
Schedules ==
    {[kind |-> "schedule", today |-> ws, tomorrow |-> tm] :
        ws \in DaySeqs(DayCuts, MaxWindows),
        tm \in {NoTomorrow} \cup
               {Tomorrow(<<[s |-> 0, e |-> 60, p |-> q]>>, FALSE) : q \in Prices}}
    \cup
    {[kind |-> "schedule", today |-> ws, tomorrow |-> tm] :
        ws \in DaySeqs(LateCuts, MaxWindows),
        tm \in {NoTomorrow} \cup
               {Tomorrow(tw, f) : tw \in DaySeqs(EarlyCuts, MaxWindows),
                                  f \in BOOLEAN}}

NowMinutes == {0, 200, 600, 899, 1400}

Today == Len(Dates) - 2

\* the decoded JSON body of a schedule whose first day is Today
WireBody(sc) ==
    LET d == WireDay(Today, sc.today)
        tm == WireDay(Today + 1, sc.tomorrow.wins)
    IN  [current_price |-> "low",
         forecasts |-> IF ~sc.tomorrow.present THEN <<d>>
                       ELSE IF sc.tomorrow.first THEN <<tm, d>>
                       ELSE <<d, tm>>]

---------------------------------------------------------------------------
(* Reads of the sensors against a published snapshot *)

InitResolver ==
    /\ src \in Schedules
    /\ now \in {[day |-> Today, minute |-> m] : m \in NowMinutes}
    /\ data = ProcessData(WireBody(src), now).v
    /\ last_update_success = TRUE
    /\ out = NoOut
    /\ arg = None
    /\ pc = "idle"
    /\ attempt = 0
    /\ calls = 0
    /\ hist = <<>>
    /\ sleeps = <<>>
    /\ ret = NoOut
    /\ retry_count = 0
    /\ extended_retry_count = 0
    /\ Installed

ReadUnchanged ==
    /\ UNCHANGED <<data, last_update_success, now, pc, attempt, calls, hist,
                   sleeps, ret, retry_count, extended_retry_count, src, arg>>
    /\ UNCHANGED setup

\* AMBCurrentPriceSensor.native_value
ReadCurrentPrice ==
    /\ out = NoOut
    /\ out' = [op |-> "price.native_value",
               calc |-> PriceSensorCalculateCurrentPrice(data, now),
               res |-> PriceSensorNativeValue(data, now)]
    /\ ReadUnchanged

\* AMBCurrentPriceSensor._find_next_change
ReadNextChange ==
    /\ out = NoOut
    /\ out' = [op |-> "price._find_next_change",
               res |-> PriceSensorFindNextChange(data, now)]
    /\ ReadUnchanged

\* AMBCurrentDurationSensor.native_value
ReadDuration ==
    /\ out = NoOut
    /\ out' = [op |-> "duration.native_value",
               calc |-> DurationSensorCalculateMergedRemaining(data, now),
               res |-> DurationSensorNativeValue(data, now)]
    /\ ReadUnchanged

\* AMBDataUpdateCoordinator._find_current_period(forecasts, now)
CallFindCurrentPeriod ==
    /\ out = NoOut
    /\ out' = [op |-> "coordinator._find_current_period",
               res |-> CoordinatorFindCurrentPeriod(data.forecasts, now)]
    /\ ReadUnchanged

\* AMBDataUpdateCoordinator._find_next_change(forecasts, now)
CallFindNextChange ==
    /\ out = NoOut
    /\ out' = [op |-> "coordinator._find_next_change",
               res |-> CoordinatorFindNextChange(data.forecasts, now)]
    /\ ReadUnchanged

NextResolver ==
    \/ ReadCurrentPrice
    \/ ReadNextChange
    \/ ReadDuration
    \/ CallFindCurrentPeriod
    \/ CallFindNextChange

SpecResolver == InitResolver /\ [][NextResolver]_vars

---------------------------------------------------------------------------
(* The schedule in minutes, against which the reads are stated *)

Cur == now.minute

\* the windows of today's record that hold the minute m, by position
Holding(m) ==
    {i \in 1..Len(src.today) : src.today[i].s <= m /\ m < src.today[i].e}

TheHolding(m) == src.today[CHOOSE i \in Holding(m) : TRUE]

\* the end of the run of windows of price p that starts at boundary b, each
\* starting where the one before ends: b itself when no such window starts
\* there
RECURSIVE RunFrom(_, _, _)
RunFrom(wins, b, p) ==
    IF \E i \in 1..Len(wins) : wins[i].s = b /\ wins[i].p = p
    THEN RunFrom(wins,
                 wins[CHOOSE i \in 1..Len(wins) :
                          wins[i].s = b /\ wins[i].p = p].e, p)
    ELSE b

PriceOps == {"price.native_value"}

\* C6: over a well-formed snapshot, the current-price computation of the
\* price sensor and the current-period lookup of the coordinator return a
\* price exactly when a window of today's record holds now's minute in
\* [start, end), that window is the only one, and the price is its price;
\* otherwise they return None.
C6_CurrentPriceIffHolding ==
    /\ out.op = "price.native_value" =>
          /\ out.calc.tag = "ok"
          /\ (out.calc.v # None) <=> (Holding(Cur) # {})
          /\ Holding(Cur) # {} =>
                /\ Cardinality(Holding(Cur)) = 1
                /\ out.calc.v = PyStr(TheHolding(Cur).p)
                /\ out.res = Ok(PyStr(Upper(TheHolding(Cur).p)))
    /\ out.op = "coordinator._find_current_period" =>
          /\ out.res.tag = "ok"
          /\ (out.res.v # None) <=> (Holding(Cur) # {})
          /\ Holding(Cur) # {} =>
                /\ out.res.v.price = PyStr(TheHolding(Cur).p)
                /\ out.res.v.start = StartLabel(TheHolding(Cur).s)

\* the price came from a window that is not the first of the list, in a day
\* listed out of start order
C6_Witness ==
    /\ out.op = "price.native_value"
    /\ Len(src.today) = 3
    /\ src.today[1].s > src.today[3].s
    /\ Holding(Cur) = {3}
    /\ out.calc = Ok(PyStr(High))

\* C7: a window whose end label is "23:59" ends at minute 1440: when it
\* holds now and nothing of tomorrow continues it, 1440 - now minutes
\* remain; when tomorrow's first window starts at minute 0 with the same
\* price, the remaining minutes are (1440 - now) plus the end minute of
\* tomorrow's contiguous same-price run.
C7_MidnightMerge ==
    (out.op = "duration.native_value" /\ Holding(Cur) # {}
        /\ TheHolding(Cur).e = DayMinutes) =>
       /\ out.calc.tag = "ok"
       /\ ~src.tomorrow.present =>
              out.calc.v = PyInt(DayMinutes - Cur)
       /\ (/\ src.tomorrow.present
           /\ src.tomorrow.wins # <<>>
           /\ src.tomorrow.wins[1].s = 0
           /\ src.tomorrow.wins[1].p = TheHolding(Cur).p) =>
              out.calc.v =
                  PyInt((DayMinutes - Cur)
                        + RunFrom(src.tomorrow.wins, 0, TheHolding(Cur).p))

\* now = 23:20 in [1380, 1440), tomorrow [0, 60) of the same price: 40 + 60
C7_Witness ==
    /\ out.op = "duration.native_value"
    /\ Cur = 1400
    /\ Holding(Cur) # {}
    /\ TheHolding(Cur).s = 1380
    /\ TheHolding(Cur).e = DayMinutes
    /\ src.tomorrow.present
    /\ src.tomorrow.wins = <<[s |-> 0, e |-> 60, p |-> TheHolding(Cur).p]>>
    /\ out.res = Ok(PyInt(100))

\* C8: within today the merge runs from the current window through the
\* windows that start exactly at the merge boundary with the current price,
\* and stops at the first gap or price change, whatever follows: when the
\* run ends before midnight the remaining minutes are its end minus now.
C8_MergeStopsAtBoundary ==
    (out.op = "duration.native_value" /\ Holding(Cur) # {}) =>
       LET w == TheHolding(Cur)
           b == RunFrom(src.today, w.e, w.p)
       IN  b < DayMinutes =>
              /\ out.calc = Ok(PyInt(b - Cur))
              /\ out.res = Ok(PyInt(b - Cur))

\* today [0,360,low), [360,600,low), [600,900,high), now = 200: 400 remain
C8_Witness ==
    /\ out.op = "duration.native_value"
    /\ Cur = 200
    /\ src.today = <<[s |-> 0, e |-> 360, p |-> Low],
                     [s |-> 360, e |-> 600, p |-> Low],
                     [s |-> 600, e |-> 900, p |-> High]>>
    /\ out.res = Ok(PyInt(400))

NextChangeOps == {"price._find_next_change", "coordinator._find_next_change"}

\* C9: when no window of today starts strictly after now and tomorrow's
\* record is not empty, the next change is tomorrow's first listed window:
\* its start label, its price and tomorrow's date, whatever the price.
C9_NextChangeTomorrowFirst ==
    (/\ out.op \in NextChangeOps
     /\ \A i \in 1..Len(src.today) : src.today[i].s <= Cur
     /\ src.tomorrow.present
     /\ src.tomorrow.wins # <<>>) =>
        out.res = Ok([t |-> "dict",
                      time |-> StartLabel(src.tomorrow.wins[1].s),
                      price |-> PyStr(src.tomorrow.wins[1].p),
                      date |-> DateStr(Today + 1)])

\* tomorrow's first listed window is not its earliest and has the price of
\* the window that holds now
C9_Witness ==
    /\ out.op = "price._find_next_change"
    /\ Holding(Cur) # {}
    /\ src.tomorrow.present
    /\ Len(src.tomorrow.wins) = 2
    /\ src.tomorrow.wins[1].s = 60
    /\ src.tomorrow.wins[1].p = TheHolding(Cur).p
    /\ out.res.tag = "ok"
    /\ out.res.v # None
    /\ out.res.v.time = StartLabel(60)
    /\ out.res.v.date = DateStr(Today + 1)

\* the windows of today's record that start strictly after now, by position
StartingLater == {i \in 1..Len(src.today) : src.today[i].s > Cur}

FirstLater == CHOOSE i \in StartingLater : \A k \in StartingLater : i <= k

\* C24: a next change dated today is the first window in today's list
\* order whose start is strictly after now's minute, never one starting at
\* now; tomorrow's first window is returned only when no window of today
\* starts strictly after now.
C24_NextChangeStrictlyAfter ==
    out.op \in NextChangeOps
        => /\ out.res.tag = "ok"
           /\ StartingLater # {}
                 => out.res.v = [t |-> "dict",
                                 time |-> StartLabel(src.today[FirstLater].s),
                                 price |-> PyStr(src.today[FirstLater].p),
                                 date |-> DateStr(Today)]
           /\ StartingLater = {}
                 => \/ out.res.v = None
                    \/ out.res.v.date = DateStr(Today + 1)

\* now = 10:00, a window starting at 10:00 listed first: the next change is
\* the window starting at 15:00
C24_Witness ==
    /\ out.op = "coordinator._find_next_change"
    /\ Cur = 600
    /\ Len(src.today) >= 2
    /\ src.today[1].s = 600
    /\ StartingLater # {}
    /\ out.res.v.date = DateStr(Today)
    /\ out.res.v.time = StartLabel(900)

---------------------------------------------------------------------------
(* src/sensor.py, the duration sensor of version 1.0 *)

\* AMBCurrentDurationSensor._time_to_minutes: except Exception: return 0
V10DurationSensorTimeToMinutes(v) ==
    Let(TimeToMinutesTry(v), LAMBDA r :
        IF r.tag = "raise" THEN Ok(0) ELSE r)

\* one turn of the period loop of _calculate_remaining_time
V10DurationSensorSlot(period) ==
    Let(Get(period, "hour_range", <<>>), LAMBDA rng :
    Let(Split(rng, RangeSep), LAMBDA parts :
        IF ~Contains(rng, RangeSep) THEN [k |-> "skip"]
        ELSE IF Len(parts) # 2 THEN [k |-> "raise"]
        ELSE [k |-> "slot",
              start_m |-> V10DurationSensorTimeToMinutes(PyStr(parts[1])).v,
              end_m |-> IF parts[2] = EndOfDayLabel THEN 24 * 60
                        ELSE V10DurationSensorTimeToMinutes(PyStr(parts[2])).v]))

\* the loop returning the distance to the start of the period
RECURSIVE V10DurationSensorScanFromStart(_, _, _)
V10DurationSensorScanFromStart(periods, i, cur) ==
    IF i > Len(periods) THEN Ok(None)
    ELSE Let(V10DurationSensorSlot(periods[i]), LAMBDA s :
             IF s.k = "skip" THEN V10DurationSensorScanFromStart(periods, i + 1, cur)
             ELSE IF s.k = "raise" THEN Raise("ValueError")
             ELSE IF s.start_m <= cur /\ cur < s.end_m
             THEN Ok(PyInt(cur - s.start_m))
             ELSE V10DurationSensorScanFromStart(periods, i + 1, cur))

\* the loop over the periods of the records dated today: the first period
\* holding current_minutes gives end_m - current_minutes
RECURSIVE V10DurationSensorScan(_, _, _)
V10DurationSensorScan(periods, i, cur) ==
    IF i > Len(periods) THEN Ok(None)
    ELSE Let(V10DurationSensorSlot(periods[i]), LAMBDA s :
             IF s.k = "skip" THEN V10DurationSensorScan(periods, i + 1, cur)
             ELSE IF s.k = "raise" THEN Raise("ValueError")
             ELSE IF s.start_m <= cur /\ cur < s.end_m
             THEN Ok(PyInt(s.end_m - cur))
             ELSE V10DurationSensorScan(periods, i + 1, cur))

\* _calculate_remaining_time
V10DurationSensorCalculateRemainingTime(d, n) ==
    IF Falsy(d) THEN Ok(None)
    ELSE V10DurationSensorScan(
             PeriodsOn(Get(d, "forecasts", <<>>), TodayStr(n)), 1,
             CurrentMinutes(n))

\* native_value: None without data, else max(0, remaining)
V10DurationSensorNativeValue(d, n) ==
    IF Falsy(d) THEN Ok(None)
    ELSE Let(V10DurationSensorCalculateRemainingTime(d, n), LAMBDA r :
             IF r.tag = "raise" \/ r.v = None THEN r
             ELSE Ok(PyInt(Max(0, r.v.n))))

---------------------------------------------------------------------------
(* Reads of the merged duration and the unmerged duration against
   snapshots of up to three days.  src is the schedule in minutes: today's
   windows in list order, tomorrow's record and the record of the day after,
   each present or not; the price labels are written in lower and in upper
   case; the windows of a day may overlap and come in any order. *)

MaxMergeLen == 2

MergePrices == {Low, LowInCapitals, High}

MergeCuts == {0, 600, 24 * 60}

TomorrowCuts == {0, 60, 24 * 60}

\* any windows over the cut points, in any order
AnyDay(cuts, prices, n) ==
    { ws \in SeqsUpTo({[s |-> ab[1], e |-> ab[2], p |-> q] :
                          ab \in {x \in cuts \X cuts : x[1] < x[2]},
                          q \in prices}, n) : TRUE }

MergeDays ==
    {[kind |-> "days", today |-> ws, tomorrow |-> tm, after |-> af] :
        ws \in AnyDay(MergeCuts, MergePrices, MaxMergeLen),
        tm \in {NoTomorrow} \cup
               {Tomorrow(tw, FALSE) :
                   tw \in AnyDay(TomorrowCuts, {Low, High}, MaxMergeLen)},
        af \in {NoTomorrow,
                Tomorrow(<<[s |-> 0, e |-> 60, p |-> Low]>>, FALSE)}}

MergeMinutes == {200, 600}

\* the decoded JSON body of the days, the first of them Today
WireDays(sc) ==
    [current_price |-> "low",
     forecasts |->
         <<WireDay(Today, sc.today)>>
         \o (IF sc.tomorrow.present
             THEN <<WireDay(Today + 1, sc.tomorrow.wins)>> ELSE <<>>)
         \o (IF sc.after.present
             THEN <<WireDay(Today + 2, sc.after.wins)>> ELSE <<>>)]

InitMerge ==
    /\ src \in MergeDays
    /\ now \in {[day |-> Today, minute |-> m] : m \in MergeMinutes}
    /\ data = ProcessData(WireDays(src), now).v
    /\ last_update_success = TRUE
    /\ out = NoOut
    /\ arg = None
    /\ pc = "idle"
    /\ attempt = 0
    /\ calls = 0
    /\ hist = <<>>
    /\ sleeps = <<>>
    /\ ret = NoOut
    /\ retry_count = 0
    /\ extended_retry_count = 0
    /\ Installed

\* AMBCurrentDurationSensor.native_value of version 1.1
ReadMergedDuration ==
    /\ out = NoOut
    /\ out' = [op |-> "duration.native_value",
               calc |-> DurationSensorCalculateMergedRemaining(data, now),
               res |-> DurationSensorNativeValue(data, now)]
    /\ UNCHANGED <<data, last_update_success, now, pc, attempt, calls, hist,
                   sleeps, ret, retry_count, extended_retry_count, src, arg>>
    /\ UNCHANGED setup

\* the duration sensors of version 1.0 and of version 1.1 on the same
\* snapshot at the same minute
ReadBothDurations ==
    /\ out = NoOut
    /\ out' = [op |-> "v1.0+v1.1.duration",
               unmerged |-> V10DurationSensorCalculateRemainingTime(data, now),
               res |-> DurationSensorCalculateMergedRemaining(data, now)]
    /\ UNCHANGED <<data, last_update_success, now, pc, attempt, calls, hist,
                   sleeps, ret, retry_count, extended_retry_count, src, arg>>
    /\ UNCHANGED setup

NextMerge ==
    \/ ReadMergedDuration
    \/ ReadBothDurations

SpecMerge == InitMerge /\ [][NextMerge]_vars

---------------------------------------------------------------------------
(* The merge contract over the days of SpecMerge *)

NoOverlap(wins) ==
    \A i, j \in 1..Len(wins) : i < j => Disjoint(wins[i], wins[j])

\* no two windows of a day overlap
WellFormedDays == NoOverlap(src.today) /\ NoOverlap(src.tomorrow.wins)

\* the end of the run of windows from boundary b whose price is P once
\* normalised, each starting where the one before ends
RECURSIVE NormRunFrom(_, _, _)
NormRunFrom(wins, b, P) ==
    IF \E i \in 1..Len(wins) : wins[i].s = b /\ Upper(wins[i].p) = P
    THEN NormRunFrom(wins,
                     wins[CHOOSE i \in 1..Len(wins) :
                              wins[i].s = b /\ Upper(wins[i].p) = P].e, P)
    ELSE b

\* the merged boundary of the data model with normalised prices, in minutes
\* from today's midnight
NormMergedEnd ==
    LET w == TheHolding(Cur)
        b == NormRunFrom(src.today, w.e, Upper(w.p))
    IN  IF b = DayMinutes
        THEN DayMinutes + NormRunFrom(src.tomorrow.wins, 0, Upper(w.p))
        ELSE b

\* C22: price labels count as equal when they differ in letter case alone:
\* the merged remaining minutes run to the end of the contiguous windows
\* whose normalised price is that of the current window, within today and
\* across midnight.
C22_CaseInsensitiveMerge ==
    (out.op = "duration.native_value" /\ WellFormedDays /\ Holding(Cur) # {})
        => out.calc = Ok(PyInt(NormMergedEnd - Cur))

\* the end of the merged block a duration read reports, in minutes from
\* today's midnight
ReportedEnd == out.calc.v.n + Cur

\* C23: the merge crosses midnight only when today's run ends at exactly
\* 1440 and tomorrow's record exists, is not empty and has its earliest
\* window starting at minute 0 with the price of the current window; it
\* then runs through tomorrow's contiguous windows of that price and no
\* further: the boundary is at most 2880 whatever the day after holds.
C23_MidnightExtensionBounded ==
    (out.op = "duration.native_value" /\ WellFormedDays /\ Holding(Cur) # {})
        => LET w == TheHolding(Cur)
           IN  /\ out.calc.tag = "ok"
               /\ out.calc.v # None
               /\ ReportedEnd <= 2 * DayMinutes
               /\ ReportedEnd > DayMinutes
                     => /\ RunFrom(src.today, w.e, w.p) = DayMinutes
                        /\ src.tomorrow.present
                        /\ src.tomorrow.wins # <<>>
                        /\ \E i \in 1..Len(src.tomorrow.wins) :
                              /\ src.tomorrow.wins[i].s = 0
                              /\ src.tomorrow.wins[i].p = w.p
                        /\ ReportedEnd =
                              DayMinutes + RunFrom(src.tomorrow.wins, 0, w.p)
               /\ ReportedEnd <= DayMinutes
                     => ReportedEnd = RunFrom(src.today, w.e, w.p)

\* tomorrow's run of the current price ends at its midnight and the day
\* after starts with the same price: the boundary is 2880
C23_Witness ==
    /\ out.op = "duration.native_value"
    /\ WellFormedDays
    /\ Holding(Cur) # {}
    /\ TheHolding(Cur).p = Low
    /\ Len(src.tomorrow.wins) = 2
    /\ src.tomorrow.wins[1].s = 60
    /\ src.after.present
    /\ src.after.wins[1].p = Low
    /\ ReportedEnd = 2 * DayMinutes

\* the merged boundary run from the window w with the labels as written
MergedEndFrom(w) ==
    LET b == RunFrom(src.today, w.e, w.p)
    IN  IF b = DayMinutes
        THEN DayMinutes + RunFrom(src.tomorrow.wins, 0, w.p)
        ELSE b

\* a window of the same price, labels normalised, starts where w ends:
\* later today, or at tomorrow's minute 0 when w ends at midnight
HasSuccessor(w) ==
    \/ \E i \in 1..Len(src.today) :
          src.today[i].s = w.e /\ Upper(src.today[i].p) = Upper(w.p)
    \/ /\ w.e = DayMinutes
       /\ \E i \in 1..Len(src.tomorrow.wins) :
             /\ src.tomorrow.wins[i].s = 0
             /\ Upper(src.tomorrow.wins[i].p) = Upper(w.p)

\* C27: the merged remaining time of version 1.1 is defined exactly when
\* the unmerged remaining time of version 1.0 is, it is never smaller, and
\* over days without overlap the two are equal when no window of the same
\* price starts where the current window ends.
C27_MergedExtendsUnmerged ==
    out.op = "v1.0+v1.1.duration"
        => /\ out.unmerged.tag = "ok"
           /\ out.res.tag = "ok"
           /\ (out.res.v = None) <=> (out.unmerged.v = None)
           /\ out.res.v # None => out.res.v.n >= out.unmerged.v.n
           /\ (WellFormedDays /\ Holding(Cur) # {})
                 => /\ out.unmerged.v = PyInt(TheHolding(Cur).e - Cur)
                    /\ ~HasSuccessor(TheHolding(Cur))
                          => out.res.v = out.unmerged.v

\* the merged value is the longer one after 00:00-10:00 and 10:00-23:59 at
\* one price
C27_Witness ==
    /\ out.op = "v1.0+v1.1.duration"
    /\ Cur = 200
    /\ src.today = <<[s |-> 0, e |-> 600, p |-> Low],
                     [s |-> 600, e |-> DayMinutes, p |-> Low]>>
    /\ out.unmerged.v = PyInt(400)
    /\ out.res.v.n >= DayMinutes - 200

---------------------------------------------------------------------------
(* coordinator.py: the refresh, _fetch_data_with_retry and _extended_retry *)

RETRY_ATTEMPTS == 5

EXTENDED_RETRY_ATTEMPTS == 20

\* DEFAULT_UPDATE_INTERVAL, in minutes
UpdateIntervalMinutes == 2 * 60

\* RETRY_INTERVAL and EXTENDED_RETRY_INTERVAL, in minutes
RetryIntervalMinutes == 1

ExtendedRetryIntervalMinutes == 10

MaxRefreshes == 2

\* how one call of _fetch_data can fail: aiohttp.ClientError (connection
\* refused, a status raise_for_status rejects, a wrong content type),
\* asyncio.TimeoutError (the total timeout), json.JSONDecodeError
FailureKinds == {"ClientError", "TimeoutError", "JSONDecodeError"}

\* except aiohttp.ClientError
Caught(kind) == kind = "ClientError"

ASchedule ==
    [kind |-> "schedule",
     today |-> <<[s |-> 0, e |-> 360, p |-> Low],
                 [s |-> 360, e |-> 24 * 60, p |-> High]>>,
     tomorrow |-> NoTomorrow]

GoodBody == WireBody(ASchedule)

\* bodies served with status 200: a complete one, one without
\* current_price, one without forecasts, one with a price level that is
\* neither "low" nor "high"
Bodies ==
    { GoodBody,
      [forecasts |-> GoodBody.forecasts],
      [current_price |-> "high"],
      [current_price |-> "medium", forecasts |-> GoodBody.forecasts] }

\* what the call number c of a refresh does when the API fails the first
\* `plan` calls and answers from then on
Outcomes(plan, c) ==
    IF c <= plan THEN {[kind |-> f] : f \in FailureKinds}
    ELSE {[kind |-> "ok", body |-> b] : b \in Bodies}

\* now + timedelta(minutes=k)
Advance(n, k) ==
    IF n.minute + k >= 24 * 60
    THEN [day |-> n.day + 1, minute |-> n.minute + k - 24 * 60]
    ELSE [day |-> n.day, minute |-> n.minute + k]

\* _async_update_data without its try: the exception leaves as it is
AsyncUpdateDataUnwrapped(r) == r

\* raised exceptions that are not subclasses of Exception: `except
\* Exception` passes them.  These are BaseException itself and every
\* class under it outside Exception: BaseExceptionGroup, GeneratorExit,
\* KeyboardInterrupt, SystemExit and asyncio.CancelledError
BaseExceptions ==
    {"BaseException", "BaseExceptionGroup", "CancelledError",
     "GeneratorExit", "KeyboardInterrupt", "SystemExit"}

\* _async_update_data: `except Exception` turns what it takes into
\* UpdateFailed; asyncio.CancelledError passes
AsyncUpdateData(r) ==
    IF r.tag = "raise" /\ r.exc \notin BaseExceptions
    THEN Raise("UpdateFailed")
    ELSE r

\* ExhaustedResult with the cached data returned unconditionally
ExhaustedResultNoCheck(d) == Ok(d)

\* the end of _extended_retry: the cached data if any, else UpdateFailed
ExhaustedResult(d) == IF ~Falsy(d) THEN Ok(d) ELSE Raise("UpdateFailed")

\* if attempt == RETRY_ATTEMPTS, taken one attempt early
LastFastAttemptEarly(a) == a = RETRY_ATTEMPTS - 1

\* if attempt == RETRY_ATTEMPTS: the extended tier is entered
LastFastAttempt(a) == a = RETRY_ATTEMPTS

\* if attempt == EXTENDED_RETRY_ATTEMPTS: break
LastExtendedAttempt(a) == a = EXTENDED_RETRY_ATTEMPTS

\* the end of a refresh that drops the data held when the refresh fails
EndRefreshClearing(r) ==
    /\ ret' = AsyncUpdateData(r)
    /\ pc' = "idle"
    /\ data' = IF r.tag = "ok" THEN r.v ELSE None
    /\ last_update_success' = (r.tag = "ok")

\* the refresh ends with r: the coordinator keeps the returned data, or
\* keeps what it had and marks the update failed
EndRefresh(r) ==
    /\ ret' = AsyncUpdateData(r)
    /\ pc' = "idle"
    /\ data' = IF r.tag = "ok" THEN r.v ELSE data
    /\ last_update_success' = (r.tag = "ok")

InitRetry ==
    /\ data = None
    /\ last_update_success = TRUE
    /\ now = [day |-> Today, minute |-> 0]
    /\ pc = "idle"
    /\ attempt = 0
    /\ calls = 0
    /\ hist = <<>>
    /\ sleeps = <<>>
    /\ ret = NoOut
    /\ retry_count = 0
    /\ extended_retry_count = 0
    /\ Installed
    /\ src = [kind |-> "refresh", n |-> 0, plan |-> 0, prev |-> None]
    /\ arg = None
    /\ out = NoOut

\* the scheduler calls _async_update_data: at setup, then every interval
StartRefresh ==
    /\ pc = "idle"
    /\ src.n < MaxRefreshes
    /\ \E k \in 0..(RETRY_ATTEMPTS + EXTENDED_RETRY_ATTEMPTS) :
           src' = [kind |-> "refresh", n |-> src.n + 1, plan |-> k,
                   prev |-> data]
    /\ now' = IF src.n = 0 THEN now ELSE Advance(now, UpdateIntervalMinutes)
    /\ pc' = "fast"
    /\ attempt' = 1
    /\ calls' = 0
    /\ hist' = <<>>
    /\ sleeps' = <<>>
    /\ ret' = NoOut
    /\ UNCHANGED <<data, last_update_success, retry_count,
                   extended_retry_count, arg, out>>
    /\ UNCHANGED setup

\* one turn of the loop of _fetch_data_with_retry, up to its sleep
FastAttempt ==
    /\ pc = "fast"
    /\ \E o \in Outcomes(src.plan, calls + 1) :
          /\ calls' = calls + 1
          /\ hist' = Append(hist, o)
          /\ IF o.kind = "ok"
             THEN /\ retry_count' = 0
                  /\ extended_retry_count' = 0
                  /\ EndRefresh(ProcessData(o.body, now))
                  /\ UNCHANGED attempt
             ELSE IF Caught(o.kind)
             THEN /\ IF LastFastAttempt(attempt)
                     THEN pc' = "extended" /\ attempt' = 1
                     ELSE pc' = "fast_sleep" /\ UNCHANGED attempt
                  /\ UNCHANGED <<ret, data, last_update_success, retry_count,
                                 extended_retry_count>>
             ELSE /\ EndRefresh(Raise(o.kind))
                  /\ UNCHANGED <<attempt, retry_count, extended_retry_count>>
    /\ UNCHANGED <<now, sleeps, src, arg, out>>
    /\ UNCHANGED setup

\* await asyncio.sleep(RETRY_INTERVAL.total_seconds()), then the next turn
FastSleep ==
    /\ pc = "fast_sleep"
    /\ sleeps' = Append(sleeps, "RETRY_INTERVAL")
    /\ now' = Advance(now, RetryIntervalMinutes)
    /\ attempt' = attempt + 1
    /\ pc' = "fast"
    /\ UNCHANGED <<data, last_update_success, calls, hist, ret,
                   retry_count, extended_retry_count, src, arg, out>>
    /\ UNCHANGED setup

\* one turn of the loop of _extended_retry, up to its sleep, and what
\* follows the loop
ExtendedAttempt ==
    /\ pc = "extended"
    /\ \E o \in Outcomes(src.plan, calls + 1) :
          /\ calls' = calls + 1
          /\ hist' = Append(hist, o)
          /\ IF o.kind = "ok"
             THEN /\ extended_retry_count' = 0
                  /\ EndRefresh(ProcessData(o.body, now))
                  /\ UNCHANGED <<attempt, retry_count>>
             ELSE IF Caught(o.kind)
             THEN /\ IF LastExtendedAttempt(attempt)
                     THEN EndRefresh(ExhaustedResult(data))
                     ELSE /\ pc' = "extended_sleep"
                          /\ UNCHANGED <<ret, data, last_update_success>>
                  /\ UNCHANGED <<attempt, retry_count, extended_retry_count>>
             ELSE /\ EndRefresh(Raise(o.kind))
                  /\ UNCHANGED <<attempt, retry_count, extended_retry_count>>
    /\ UNCHANGED <<now, sleeps, src, arg, out>>
    /\ UNCHANGED setup

\* await asyncio.sleep(EXTENDED_RETRY_INTERVAL.total_seconds())
ExtendedSleep ==
    /\ pc = "extended_sleep"
    /\ sleeps' = Append(sleeps, "EXTENDED_RETRY_INTERVAL")
    /\ now' = Advance(now, ExtendedRetryIntervalMinutes)
    /\ attempt' = attempt + 1
    /\ pc' = "extended"
    /\ UNCHANGED <<data, last_update_success, calls, hist, ret,
                   retry_count, extended_retry_count, src, arg, out>>
    /\ UNCHANGED setup

\* the task is cancelled while it sleeps: asyncio.CancelledError leaves
\* asyncio.sleep and is caught neither by `except aiohttp.ClientError` nor
\* by `except Exception`
CancelSleep ==
    /\ pc \in {"fast_sleep", "extended_sleep"}
    /\ pc' = "cancelled"
    /\ ret' = AsyncUpdateData(Raise("CancelledError"))
    /\ UNCHANGED <<data, last_update_success, now, attempt, calls, hist,
                   sleeps, retry_count, extended_retry_count, src, arg, out>>
    /\ UNCHANGED setup

\* the task is cancelled while a call of _fetch_data is pending: the call
\* was made and ends with asyncio.CancelledError, which no except takes
CancelFetch ==
    /\ pc \in {"fast", "extended"}
    /\ pc' = "cancelled"
    /\ calls' = calls + 1
    /\ hist' = Append(hist, [kind |-> "CancelledError"])
    /\ ret' = AsyncUpdateData(Raise("CancelledError"))
    /\ UNCHANGED <<data, last_update_success, now, attempt, sleeps,
                   retry_count, extended_retry_count, src, arg, out>>
    /\ UNCHANGED setup

NextRetry ==
    \/ StartRefresh
    \/ FastAttempt
    \/ FastSleep
    \/ ExtendedAttempt
    \/ ExtendedSleep
    \/ CancelSleep
    \/ CancelFetch

SpecRetry == InitRetry /\ [][NextRetry]_vars

\* the refresh when every call of _fetch_data returns or raises and every
\* asyncio.sleep returns: no cancellation, and no step is put off for ever
NextRetryCompleting ==
    \/ StartRefresh
    \/ FastAttempt
    \/ FastSleep
    \/ ExtendedAttempt
    \/ ExtendedSleep

\* an attempt can be made exactly when the refresh stands at a call
AttemptEnabled == pc \in {"fast", "extended"}

\* weak fairness of the sleeps and of the attempts; that of the attempts is
\* written out, WF_vars(A) being []<>~ENABLED <<A>>_vars \/ []<><<A>>_vars
SpecRetryCompleting ==
    /\ InitRetry
    /\ [][NextRetryCompleting]_vars
    /\ WF_vars(FastSleep)
    /\ WF_vars(ExtendedSleep)
    /\ \/ []<>(~AttemptEnabled)
       \/ []<><<FastAttempt \/ ExtendedAttempt>>_vars

---------------------------------------------------------------------------
(* The retry contract *)

AllAttempts == RETRY_ATTEMPTS + EXTENDED_RETRY_ATTEMPTS

\* a refresh has run to its end
Ended == src.kind = "refresh" /\ pc = "idle" /\ ret # NoOut

LastCall == hist[Len(hist)]

\* the contract validate_input enforces on a body: both keys present and
\* current_price one of "low", "high"
MeetsContract(body) ==
    /\ Has(body, "current_price")
    /\ Has(body, "forecasts")
    /\ body.current_price \in {"low", "high"}

\* C1: when the API fails the first k calls of a refresh, k in 0..4, and
\* answers the next one, the refresh never enters the extended tier, and it
\* ends returning the snapshot processed from that answer after exactly
\* k+1 calls.
C1_FastTierRecovers ==
    (src.kind = "refresh" /\ src.n > 0 /\ src.plan <= RETRY_ATTEMPTS - 1)
    => /\ pc \notin {"extended", "extended_sleep"}
       /\ Ended
          => /\ calls = src.plan + 1
             /\ LastCall.kind = "ok"
             /\ ret = ProcessData(LastCall.body, now)

\* C2: when the API fails all 5 + 20 calls of a refresh and a previous
\* snapshot exists, the refresh ends returning that snapshot unchanged,
\* marked stale so that it differs from a fresh result, and not an error.
C2_StaleSnapshotFlagged ==
    (Ended /\ src.plan = AllAttempts /\ src.prev # None)
    => /\ ret.tag = "ok"
       /\ ret.v = src.prev
       /\ Has(ret, "stale")
       /\ ret.stale = TRUE

\* C3: when the API fails all 5 + 20 calls of a refresh and no previous
\* snapshot exists, the refresh ends in UpdateFailed and the coordinator
\* holds no snapshot.
C3_ExhaustionWithoutSnapshotFails ==
    (Ended /\ src.plan = AllAttempts /\ src.prev = None)
    => /\ ret = Raise("UpdateFailed")
       /\ data = None
       /\ ~last_update_success

C3_Witness ==
    /\ Ended
    /\ src.plan = AllAttempts
    /\ src.prev = None
    /\ calls = AllAttempts
    /\ Len(sleeps) = AllAttempts - 2
    /\ ret = Raise("UpdateFailed")
    /\ data = None

\* the calls 1..n of the refresh all failed
AllFailed(n) == \A i \in 1..n : hist[i].kind # "ok"

\* C17: coordinator.data changes only at the step that ends a refresh on an
\* answered call, and then to the snapshot processed from that answer, as a
\* whole; failed attempts, sleeps, a cancelled sleep, a refresh ending in
\* an error or on the cached data leave it as it was.
C17_SnapshotReplacedWholesale ==
    [][data' # data
       => /\ pc \in {"fast", "extended"}
          /\ pc' = "idle"
          /\ hist'[Len(hist')].kind = "ok"
          /\ Ok(data') = ProcessData(hist'[Len(hist')].body, now)
          /\ ret' = Ok(data')]_vars

\* a second refresh cancelled in a sleep, the first snapshot still held
C17_Witness ==
    /\ pc = "cancelled"
    /\ ret = Raise("CancelledError")
    /\ src.n = 2
    /\ src.prev # None
    /\ data = src.prev
    /\ calls >= 1

\* C19: a refresh makes at most 5 + 20 calls; the extended tier is entered
\* only after the 5 fast calls all failed; a refresh that ends on an
\* answered call ends on the first answered call, with the snapshot
\* processed from that answer.
C19_AttemptsBounded ==
    /\ calls <= AllAttempts
    /\ calls = Len(hist)
    /\ pc \in {"extended", "extended_sleep"}
       => calls >= RETRY_ATTEMPTS /\ AllFailed(RETRY_ATTEMPTS)
    /\ calls > RETRY_ATTEMPTS => AllFailed(RETRY_ATTEMPTS)
    /\ (hist # <<>> /\ LastCall.kind = "ok")
       => /\ Ended
          /\ AllFailed(calls - 1)
          /\ ret = ProcessData(LastCall.body, now)

\* the answered call is the twenty-fifth
C19_Witness ==
    /\ Ended
    /\ calls = AllAttempts
    /\ LastCall.kind = "ok"
    /\ ret.tag = "ok"
    /\ data = ret.v

\* C20: every failed call that is followed by another call is followed by
\* one sleep first: RETRY_INTERVAL before a fast call, the extended
\* interval before an extended call, the first of them included; no sleep
\* follows an answered call or the last call.
C20_SleepBetweenAttempts ==
    /\ pc \in {"fast", "extended"} => Len(sleeps) = calls
    /\ (Ended \/ pc = "cancelled") => Len(sleeps) <= calls
    /\ Ended => Len(sleeps) = calls - 1
    /\ \A i \in 1..Len(sleeps) :
          sleeps[i] = IF i < RETRY_ATTEMPTS THEN "RETRY_INTERVAL"
                      ELSE "EXTENDED_RETRY_INTERVAL"

\* a refresh is under way
Running == pc \in {"fast", "fast_sleep", "extended", "extended_sleep"}

\* the three ways a refresh ends
EndedFresh ==
    /\ LastCall.kind = "ok"
    /\ ret.tag = "ok"
    /\ ret = ProcessData(LastCall.body, now)
    /\ data = ret.v

EndedStale ==
    /\ LastCall.kind # "ok"
    /\ src.prev # None
    /\ ret = Ok(src.prev)
    /\ data = src.prev

EndedError ==
    /\ ret = Raise("UpdateFailed")
    /\ data = src.prev
    /\ ~last_update_success

\* C21: when every call and every sleep completes, a refresh under way
\* ends; it ends in exactly one of three ways, with the snapshot of the
\* answered call, with the previous snapshot, or with UpdateFailed; and
\* _retry_count and _extended_retry_count are 0 when it ends with the
\* snapshot of the answered call.
C21_RefreshEnds ==
    /\ [](Ended => /\ EndedFresh \/ EndedStale \/ EndedError
                   /\ ~(EndedFresh /\ EndedStale)
                   /\ ~(EndedFresh /\ EndedError)
                   /\ ~(EndedStale /\ EndedError)
                   /\ EndedFresh
                         => retry_count = 0 /\ extended_retry_count = 0)
    /\ Running ~> Ended

\* a second refresh ended on the previous snapshot after all 25 calls
\* and the 23 sleeps between them
C21_Witness ==
    /\ Ended
    /\ src.n = 2
    /\ EndedStale
    /\ calls = AllAttempts
    /\ Len(sleeps) = AllAttempts - 2

\* C4: a failed call of any kind is absorbed as one failed attempt: a
\* refresh ends on a failed call only when that call is the last of the
\* extended tier, all 5 + 20 attempts used.
C4_EveryFailureAbsorbed ==
    (Ended /\ LastCall.kind # "ok") => calls = AllAttempts

\* C5: a body that misses current_price or forecasts, or whose
\* current_price is neither "low" nor "high", is never published: a refresh
\* does not end on such an answer, and the snapshot held always has a
\* valid price level.
C5_InvalidBodyNeverPublished ==
    /\ (Ended /\ LastCall.kind = "ok") => MeetsContract(LastCall.body)
    /\ (src.kind = "refresh" /\ data # None)
       => data.current_price \in {"low", "high"}

---------------------------------------------------------------------------
(* sensor.py: the attribute reads and AMBPriceScheduleSensor *)

EmptyDict == [t |-> "dict"]

\* AMBCurrentPriceSensor.extra_state_attributes; next_change['price'] is
\* period.get("price"), None when the period has no price, and .upper() of
\* None raises AttributeError.  dt_util.now() is called three times: n0 for
\* last_calculated, n1 in _get_current_period_info, n2 in _find_next_change
PriceSensorExtraStateAttributesAt(d, n0, n1, n2) ==
    IF Falsy(d) THEN Ok(EmptyDict)
    ELSE
    Let([t |-> "dict", last_calculated |-> IsoFormat(n0),
         last_updated |-> Get(d, "last_updated", None)], LAMBDA attrs :
    Let(PriceSensorGetCurrentPeriodInfo(d, n1), LAMBDA current_info :
        IF current_info.tag = "raise" THEN current_info
        ELSE
        Let(IF current_info.v = None THEN attrs
            ELSE [current_range |-> current_info.v.start \o RangeSep
                                        \o current_info.v.end] @@ attrs,
            LAMBDA attrs2 :
        Let(PriceSensorFindNextChange(d, n2), LAMBDA next_change :
            IF next_change.tag = "raise" THEN next_change
            ELSE IF next_change.v = None THEN Ok(attrs2)
            ELSE IF next_change.v.price = None THEN Raise("AttributeError")
            ELSE Ok([next_change |->
                        <<next_change.v.date, " ", next_change.v.time, " (",
                          Upper(next_change.v.price.s), ")">>] @@ attrs2)))))

\* the read when the three calls of dt_util.now() fall in one minute
PriceSensorExtraStateAttributes(d, n) ==
    PriceSensorExtraStateAttributesAt(d, n, n, n)

\* _current_merged_end_info: the end of the merged block as a label
DurationSensorCurrentMergedEndInfo(d, n) ==
    Let(DurationSensorMergedEnd(d, n), LAMBDA merged_end_m :
    Let(DurationSensorBuildScheduleForDate(Get(d, "forecasts", <<>>),
                                           TodayStr(n)), LAMBDA today_sched :
        IF merged_end_m.tag = "raise" \/ merged_end_m.v = None
        THEN merged_end_m
        ELSE
        Let(today_sched.v[CurrentSlotIndex(today_sched.v,
                                           CurrentMinutes(n))].price,
            LAMBDA current_price :
        Let(IF merged_end_m.v.n < 24 * 60 THEN merged_end_m.v.n
            ELSE merged_end_m.v.n - 24 * 60, LAMBDA m :
            Ok([t |-> "dict",
                merged_until |->
                    <<IF merged_end_m.v.n < 24 * 60 THEN TodayStr(n)
                      ELSE TomorrowStr(n),
                      " ", TwoDigits(m \div 60) \o COLON \o TwoDigits(m % 60)>>,
                merged_price |-> Upper(current_price)])))))

\* f"{hours}h {minutes}m" or f"{remaining}m"
RemainingFormatted(remaining) ==
    IF remaining >= 60
    THEN <<remaining \div 60, "h ", remaining % 60, "m">>
    ELSE <<remaining, "m">>

\* AMBCurrentDurationSensor.extra_state_attributes; dt_util.now() is called
\* three times: n0 for last_calculated, n1 in _calculate_merged_remaining
\* under native_value, n2 in _current_merged_end_info
DurationSensorExtraStateAttributesAt(d, n0, n1, n2) ==
    IF Falsy(d) THEN Ok(EmptyDict)
    ELSE
    Let([t |-> "dict", last_calculated |-> IsoFormat(n0)], LAMBDA attrs :
    Let(DurationSensorNativeValue(d, n1), LAMBDA remaining :
        IF remaining.tag = "raise" THEN remaining
        ELSE
        Let(IF remaining.v = None THEN attrs
            ELSE [remaining_formatted |-> RemainingFormatted(remaining.v.n)]
                     @@ attrs, LAMBDA attrs2 :
        Let(DurationSensorCurrentMergedEndInfo(d, n2), LAMBDA info :
            IF info.tag = "raise" THEN info
            ELSE IF info.v = None THEN Ok(attrs2)
            ELSE Ok(info.v @@ attrs2)))))

\* the read when the three calls of dt_util.now() fall in one minute
DurationSensorExtraStateAttributes(d, n) ==
    DurationSensorExtraStateAttributesAt(d, n, n, n)

\* AMBPriceScheduleSensor.native_value: the summary text, in its pieces
ScheduleSensorNativeValue(d) ==
    IF Falsy(d) THEN Ok(<<"No data">>)
    ELSE Let(Get(d, "today_schedule", <<>>), LAMBDA today_schedule :
         Let(Get(d, "tomorrow_schedule", <<>>), LAMBDA tomorrow_schedule :
             Ok(<<"Today: ", Len(today_schedule), " periods">> \o
                (IF tomorrow_schedule = <<>> THEN <<>>
                 ELSE <<", Tomorrow: ", Len(tomorrow_schedule), " periods">>))))

\* one turn of the inner loop of _generate_chart_data
ChartPoint(day, period) ==
    Let(Get(period, "hour_range", <<>>), LAMBDA rng :
    Let(Split(rng, RangeSep), LAMBDA parts :
    Let(Get(period, "price", Unknown), LAMBDA price :
        IF ~Contains(rng, RangeSep) THEN [k |-> "skip"]
        ELSE IF Len(parts) # 2 THEN [k |-> "raise"]
        ELSE [k |-> "point",
              date |-> Get(day, "date", None),
              start_time |-> parts[1],
              end_time |-> parts[2],
              price |-> price,
              price_value |-> IF price = High THEN 1 ELSE 0,
              timestamp |-> <<Get(day, "date", None), "T", parts[1], ":00">>])))

\* the inner loop of _generate_chart_data over the periods of one day
RECURSIVE ChartOfDay(_, _, _)
ChartOfDay(day, periods, i) ==
    IF i > Len(periods) THEN Ok(<<>>)
    ELSE Let(ChartPoint(day, periods[i]), LAMBDA pt :
             IF pt.k = "raise" THEN Raise("ValueError")
             ELSE Let(ChartOfDay(day, periods, i + 1), LAMBDA rest :
                      IF rest.tag = "raise" \/ pt.k = "skip" THEN rest
                      ELSE Ok(<<pt>> \o rest.v)))

\* _generate_chart_data: every period of every day, in list order
RECURSIVE GenerateChartData(_, _)
GenerateChartData(forecasts, i) ==
    IF i > Len(forecasts) THEN Ok(<<>>)
    ELSE Let(ChartOfDay(forecasts[i], Get(forecasts[i], "forecast", <<>>), 1),
             LAMBDA head :
             IF head.tag = "raise" THEN head
             ELSE Let(GenerateChartData(forecasts, i + 1), LAMBDA rest :
                      IF rest.tag = "raise" THEN rest
                      ELSE Ok(head.v \o rest.v)))

\* AMBPriceScheduleSensor.extra_state_attributes: the schedules are the
\* ones _process_data stored in the snapshot
ScheduleSensorExtraStateAttributes(d) ==
    IF Falsy(d) THEN Ok(EmptyDict)
    ELSE Let(GenerateChartData(Get(d, "forecasts", <<>>), 1), LAMBDA chart :
             IF chart.tag = "raise" THEN chart
             ELSE Ok([t |-> "dict",
                      today_schedule |-> Get(d, "today_schedule", <<>>),
                      tomorrow_schedule |-> Get(d, "tomorrow_schedule", <<>>),
                      forecasts |-> Get(d, "forecasts", <<>>),
                      last_updated |-> Get(d, "last_updated", None),
                      chart_data |-> chart.v]))

---------------------------------------------------------------------------
(* sensor.py: what a read writes.  The objects a read can change are the
   snapshot coordinator.data, with the period lists it holds, and the lists
   and dicts the read creates itself.  A read is taken here as the
   statements it executes, in order, that create a list or a dict under a
   name or change the object a name stands for; what the read leaves of
   coordinator.data is what these statements leave of it. *)

\* name = [] or name = {...}: a new object under the name
NewObject(name, v) == [st |-> "new", name |-> name, v |-> v]

\* name = forecasts[day]["forecast"]: the name stands for the snapshot's list
BindDayList(name, day) == [st |-> "bind", name |-> name, day |-> day]

\* name.append(v)
AppendTo(name, v) == [st |-> "append", name |-> name, v |-> v]

\* name.sort(key=...)
SortList(name, key) == [st |-> "sort", name |-> name, key |-> key]

\* name[key] = v
SetItem(name, key, v) == [st |-> "setitem", name |-> name, key |-> key, v |-> v]

\* name.update(v)
UpdateDict(name, v) == [st |-> "update", name |-> name, v |-> v]

\* the object a reference stands for: one the read made, or the period list
\* of a day record of the snapshot
Deref(mem, ref) ==
    IF ref.k = "made" THEN mem.made[ref.i]
    ELSE mem.data.forecasts[ref.i].forecast

\* the object of a reference replaced by v
Assign(mem, ref, v) ==
    IF ref.k = "made" THEN [mem EXCEPT !.made[ref.i] = v]
    ELSE [mem EXCEPT !.data.forecasts[ref.i].forecast = v]

\* the start of a period as the duration sensor reads it, 0 without one
PeriodStart(period) ==
    Let(DurationSensorSlot(period), LAMBDA s :
        IF s.k = "slot" THEN s.start_m ELSE 0)

RECURSIVE InsertByPeriodStart(_, _)
InsertByPeriodStart(sorted, x) ==
    IF sorted = <<>> THEN <<x>>
    ELSE IF PeriodStart(x) < PeriodStart(Head(sorted)) THEN <<x>> \o sorted
    ELSE <<Head(sorted)>> \o InsertByPeriodStart(Tail(sorted), x)

\* a list of periods in a stable sort by their start
RECURSIVE SortByPeriodStart(_)
SortByPeriodStart(l) ==
    IF l = <<>> THEN <<>>
    ELSE InsertByPeriodStart(SortByPeriodStart(SubSeq(l, 1, Len(l) - 1)),
                             l[Len(l)])

\* list.sort with the key x["start_m"] of line 344, or with the start of a
\* period
Sorted(l, key) ==
    IF key = "start_m" THEN SortByStart(l) ELSE SortByPeriodStart(l)

\* one statement executed: mem holds the snapshot, the objects made so far
\* and the object each name stands for
Exec(mem, s) ==
    IF s.st = "new"
    THEN [mem EXCEPT !.made = Append(@, s.v),
                     !.env = (s.name :> [k |-> "made",
                                         i |-> Len(mem.made) + 1]) @@ @]
    ELSE IF s.st = "bind"
    THEN [mem EXCEPT !.env = (s.name :> [k |-> "day", i |-> s.day]) @@ @]
    ELSE Let(mem.env[s.name], LAMBDA ref :
         Let(Deref(mem, ref), LAMBDA obj :
             IF s.st = "append" THEN Assign(mem, ref, Append(obj, s.v))
             ELSE IF s.st = "sort" THEN Assign(mem, ref, Sorted(obj, s.key))
             ELSE IF s.st = "setitem"
             THEN Assign(mem, ref, (s.key :> s.v) @@ obj)
             ELSE Assign(mem, ref, s.v @@ obj)))

RECURSIVE Run(_, _, _)
Run(mem, stmts, i) ==
    IF i > Len(stmts) THEN mem
    ELSE Run(Exec(mem, stmts[i]), stmts, i + 1)

\* a read that executes stmts on the snapshot d, when it has returned or
\* raised
AfterRead(d, stmts) == Run([data |-> d, made |-> <<>>, env |-> <<>>], stmts, 1)

\* coordinator.data after the read
SnapshotAfter(d, stmts) == AfterRead(d, stmts).data

\* the appends of a loop over turns, each an item, a `continue` or a raise
\* that ends the loop and the read
RECURSIVE AppendsUntilRaise(_, _, _)
AppendsUntilRaise(name, turns, i) ==
    IF i > Len(turns) \/ turns[i].k = "raise" THEN <<>>
    ELSE (IF turns[i].k = "skip" THEN <<>>
          ELSE <<AppendTo(name, turns[i].v)>>)
             \o AppendsUntilRaise(name, turns, i + 1)

\* the turns of the loop of _build_schedule_for_date
DurationSensorTurns(periods) ==
    [j \in 1..Len(periods) |->
        Let(DurationSensorSlot(periods[j]), LAMBDA s :
            IF s.k = "slot"
            THEN [k |-> "item", v |-> [start_m |-> s.start_m,
                                       end_m |-> s.end_m,
                                       price |-> s.price]]
            ELSE [k |-> s.k])]

\* lines 334 to 344 over the periods of a day record: result = [], an
\* append for every period with a range, and the sort of result unless the
\* unpacking of a split has raised
DurationSensorResultWrites(periods) ==
    Let(DurationSensorTurns(periods), LAMBDA turns :
        <<NewObject("result", <<>>)>>
        \o AppendsUntilRaise("result", turns, 1)
        \o (IF \E j \in 1..Len(turns) : turns[j].k = "raise" THEN <<>>
            ELSE <<SortList("result", "start_m")>>))

\* the position of the first day record dated date_str, 0 without one
DayIndex(forecasts, date_str) ==
    IF \E i \in 1..Len(forecasts) :
           Has(forecasts[i], "date") /\ forecasts[i].date = date_str
    THEN CHOOSE i \in 1..Len(forecasts) :
            /\ Has(forecasts[i], "date") /\ forecasts[i].date = date_str
            /\ \A k \in 1..(i - 1) :
                   ~(Has(forecasts[k], "date") /\ forecasts[k].date = date_str)
    ELSE 0

\* _build_schedule_for_date sorting the snapshot's list in place before it
\* normalises the periods
DurationSensorBuildScheduleWritesInPlace(forecasts, date_str) ==
    Let(DayIndex(forecasts, date_str), LAMBDA day :
        IF day = 0 THEN <<>>
        ELSE IF ~Has(forecasts[day], "forecast")
        THEN DurationSensorResultWrites(<<>>)
        ELSE <<BindDayList("periods", day), SortList("periods", "start")>>
             \o DurationSensorResultWrites(
                    SortByPeriodStart(forecasts[day].forecast)))

\* _build_schedule_for_date: nothing is written when no record has the
\* date; else the list `result` is made, filled and sorted
DurationSensorBuildScheduleWrites(forecasts, date_str) ==
    Let(DaysOn(forecasts, date_str), LAMBDA days :
        IF days = <<>> THEN <<>>
        ELSE DurationSensorResultWrites(Get(days[1], "forecast", <<>>)))

\* _calculate_merged_remaining and _current_merged_end_info: today's
\* schedule is built, and tomorrow's when the merged end reaches midnight
DurationSensorMergedWrites(d, n) ==
    Let(Get(d, "forecasts", <<>>), LAMBDA forecasts :
    Let(DurationSensorBuildScheduleForDate(forecasts, TodayStr(n)),
        LAMBDA today_sched :
    Let(IF today_sched.tag = "raise" THEN 0
        ELSE CurrentSlotIndex(today_sched.v, CurrentMinutes(n)), LAMBDA idx :
        DurationSensorBuildScheduleWrites(forecasts, TodayStr(n))
        \o (IF idx # 0
               /\ MergeToday(today_sched.v, idx + 1, today_sched.v[idx].end_m,
                             today_sched.v[idx].price) >= 24 * 60
            THEN DurationSensorBuildScheduleWrites(forecasts, TomorrowStr(n))
            ELSE <<>>))))

\* AMBCurrentDurationSensor.native_value
DurationSensorNativeValueWrites(d, n) ==
    IF Falsy(d) THEN <<>> ELSE DurationSensorMergedWrites(d, n)

\* AMBCurrentDurationSensor.extra_state_attributes: attrs is made, the
\* value is computed, attrs["remaining_formatted"] is set, the merged end is
\* computed and attrs updated with it; a raise ends the read
DurationSensorExtraStateAttributesWrites(d, n) ==
    IF Falsy(d) THEN <<>>
    ELSE
    Let(DurationSensorNativeValue(d, n), LAMBDA remaining :
    Let(DurationSensorCurrentMergedEndInfo(d, n), LAMBDA info :
        <<NewObject("attrs", [t |-> "dict", last_calculated |-> IsoFormat(n)])>>
        \o DurationSensorNativeValueWrites(d, n)
        \o (IF remaining.tag = "raise" THEN <<>>
            ELSE (IF remaining.v = None THEN <<>>
                  ELSE <<SetItem("attrs", "remaining_formatted",
                                 RemainingFormatted(remaining.v.n))>>)
                 \o DurationSensorMergedWrites(d, n)
                 \o (IF info.tag = "raise" \/ info.v = None THEN <<>>
                     ELSE <<UpdateDict("attrs", info.v)>>))))

\* AMBCurrentPriceSensor.native_value: with _calculate_current_price it
\* assigns to names only; no list or dict is made or changed
PriceSensorNativeValueWrites(d, n) == <<>>

\* AMBCurrentPriceSensor.extra_state_attributes: attrs is made and up to
\* three of its keys are set; a raise ends the read
PriceSensorExtraStateAttributesWrites(d, n) ==
    IF Falsy(d) THEN <<>>
    ELSE
    Let(PriceSensorGetCurrentPeriodInfo(d, n), LAMBDA current_info :
    Let(PriceSensorFindNextChange(d, n), LAMBDA next_change :
        <<NewObject("attrs", [t |-> "dict", last_calculated |-> IsoFormat(n)]),
          SetItem("attrs", "last_updated", Get(d, "last_updated", None))>>
        \o (IF current_info.tag = "raise" THEN <<>>
            ELSE (IF current_info.v = None THEN <<>>
                  ELSE <<SetItem("attrs", "current_range",
                                 current_info.v.start \o RangeSep
                                     \o current_info.v.end)>>)
                 \o (IF next_change.tag = "raise" \/ next_change.v = None
                        \/ next_change.v.price = None
                     THEN <<>>
                     ELSE <<SetItem("attrs", "next_change",
                                    <<next_change.v.date, " ",
                                      next_change.v.time, " (",
                                      Upper(next_change.v.price.s), ")">>)>>))))

\* the turns of the loops of _generate_chart_data, day by day
RECURSIVE ChartTurns(_, _)
ChartTurns(forecasts, i) ==
    IF i > Len(forecasts) THEN <<>>
    ELSE Let(Get(forecasts[i], "forecast", <<>>), LAMBDA periods :
             [j \in 1..Len(periods) |->
                 Let(ChartPoint(forecasts[i], periods[j]), LAMBDA pt :
                     IF pt.k = "point" THEN [k |-> "item", v |-> pt]
                     ELSE [k |-> pt.k])])
         \o ChartTurns(forecasts, i + 1)

\* _generate_chart_data: chart_data = [] and an append for every period
\* with a range
GenerateChartDataWrites(forecasts) ==
    <<NewObject("chart_data", <<>>)>>
    \o AppendsUntilRaise("chart_data", ChartTurns(forecasts, 1), 1)

\* AMBPriceScheduleSensor.native_value: no list or dict is made or changed
ScheduleSensorNativeValueWrites(d) == <<>>

\* AMBPriceScheduleSensor.extra_state_attributes: attrs is made with the
\* snapshot's lists as its values, the chart is built and set as
\* attrs["chart_data"]
ScheduleSensorExtraStateAttributesWrites(d) ==
    IF Falsy(d) THEN <<>>
    ELSE
    Let(GenerateChartData(Get(d, "forecasts", <<>>), 1), LAMBDA chart :
        <<NewObject("attrs",
                    [t |-> "dict",
                     today_schedule |-> Get(d, "today_schedule", <<>>),
                     tomorrow_schedule |-> Get(d, "tomorrow_schedule", <<>>),
                     forecasts |-> Get(d, "forecasts", <<>>),
                     last_updated |-> Get(d, "last_updated", None)])>>
        \o GenerateChartDataWrites(Get(d, "forecasts", <<>>))
        \o (IF chart.tag = "raise" THEN <<>>
            ELSE <<SetItem("attrs", "chart_data", chart.v)>>))

---------------------------------------------------------------------------
(* Reads of the three sensors against snapshots with missing or malformed  *)
(* parts, the clock moving on between the fetch and the reads              *)

MaxDayLen == 2

\* 00:00 - 10:00 low; 10:00 - 23:59 high; the same without a price; a period
\* that ends before it starts; a range with two separators; a period without
\* a range
ReadPeriods ==
    { WirePeriod([s |-> 0, e |-> 600, p |-> Low]),
      WirePeriod([s |-> 600, e |-> 24 * 60, p |-> High]),
      [hour_range |-> StartLabel(600) \o RangeSep \o EndOfDayLabel],
      [hour_range |-> StartLabel(600) \o RangeSep \o StartLabel(300),
       price |-> Low],
      [hour_range |-> StartLabel(600) \o RangeSep \o StartLabel(720)
                          \o RangeSep \o StartLabel(840),
       price |-> High],
      [price |-> High] }

\* today's record: a list of periods, a record without its list, no record
TodayRecords ==
    {<<[date |-> DateStr(Today), forecast |-> ps]>> :
        ps \in SeqsUpTo(ReadPeriods, MaxDayLen)}
    \cup {<<[date |-> DateStr(Today)]>>, <<>>}

TomorrowRecords ==
    {<<[date |-> DateStr(Today + 1), forecast |-> ps]>> :
        ps \in { <<>>,
                 <<WirePeriod([s |-> 0, e |-> 600, p |-> Low])>>,
                 <<WirePeriod([s |-> 0, e |-> 600, p |-> High]),
                   WirePeriod([s |-> 600, e |-> 24 * 60, p |-> High])>>,
                 <<[hour_range |-> StartLabel(0) \o RangeSep \o StartLabel(600)]>>,
                 <<WirePeriod([s |-> 0, e |-> 600, p |-> High]),
                   [hour_range |-> StartLabel(600) \o RangeSep \o StartLabel(720)
                                       \o RangeSep \o StartLabel(840),
                    price |-> High]>> }}
    \cup {<<>>}

ReadBodies ==
    {[current_price |-> "low", forecasts |-> td \o tm] :
        td \in TodayRecords, tm \in TomorrowRecords}

FetchMinutes == {400, 1400}

\* minutes between the fetch and a later read
ReadDelay == 60

\* the snapshots _process_data builds without raising are the ones published
InitReads ==
    /\ \E b \in ReadBodies, m \in FetchMinutes :
          /\ ProcessData(b, [day |-> Today, minute |-> m]).tag = "ok"
          /\ src = [kind |-> "body", body |-> b,
                    fetched |-> [day |-> Today, minute |-> m]]
    /\ now = src.fetched
    /\ data = ProcessData(src.body, now).v
    /\ last_update_success = TRUE
    /\ out = NoOut
    /\ arg = NoOut
    /\ pc = "idle"
    /\ attempt = 0
    /\ calls = 0
    /\ hist = <<>>
    /\ sleeps = <<>>
    /\ ret = NoOut
    /\ retry_count = 0
    /\ extended_retry_count = 0
    /\ Installed

\* the result of a read, stamped with the read's clock
ReadAt(op, res) == [op |-> op, now |-> now, res |-> res]

\* a read leaves the coordinator's other fields, the clock and the entry;
\* arg keeps the read before it when that was a read of the same property
ReadKeeps ==
    /\ arg' = IF out.op = out'.op THEN out ELSE NoOut
    /\ UNCHANGED <<last_update_success, now, pc, attempt, calls, hist,
                   sleeps, ret, retry_count, extended_retry_count, src>>
    /\ UNCHANGED setup

\* each read returns its result and leaves of the snapshot what its
\* statements leave
ReadPriceValue ==
    /\ out' = ReadAt("price.native_value",
                      PriceSensorNativeValue(data, now))
    /\ data' = SnapshotAfter(data, PriceSensorNativeValueWrites(data, now))
    /\ ReadKeeps

ReadPriceAttributes ==
    /\ out' = ReadAt("price.extra_state_attributes",
                      PriceSensorExtraStateAttributes(data, now))
    /\ data' = SnapshotAfter(data,
                             PriceSensorExtraStateAttributesWrites(data, now))
    /\ ReadKeeps

ReadDurationValue ==
    /\ out' = ReadAt("duration.native_value",
                      DurationSensorNativeValue(data, now))
    /\ data' = SnapshotAfter(data, DurationSensorNativeValueWrites(data, now))
    /\ ReadKeeps

ReadDurationAttributes ==
    /\ out' = ReadAt("duration.extra_state_attributes",
                      DurationSensorExtraStateAttributes(data, now))
    /\ data' = SnapshotAfter(data,
                             DurationSensorExtraStateAttributesWrites(data, now))
    /\ ReadKeeps

ReadScheduleValue ==
    /\ out' = ReadAt("schedule.native_value",
                      ScheduleSensorNativeValue(data))
    /\ data' = SnapshotAfter(data, ScheduleSensorNativeValueWrites(data))
    /\ ReadKeeps

ReadScheduleAttributes ==
    /\ out' = ReadAt("schedule.extra_state_attributes",
                      ScheduleSensorExtraStateAttributes(data))
    /\ data' = SnapshotAfter(data,
                             ScheduleSensorExtraStateAttributesWrites(data))
    /\ ReadKeeps

\* time passes after the fetch, across midnight when the fetch was late
ClockAdvance ==
    /\ now = src.fetched
    /\ now' = Advance(now, ReadDelay)
    /\ UNCHANGED <<data, last_update_success, pc, attempt, calls, hist,
                   sleeps, ret, retry_count, extended_retry_count, src, arg,
                   out>>
    /\ UNCHANGED setup

NextReads ==
    \/ ReadPriceValue
    \/ ReadPriceAttributes
    \/ ReadDurationValue
    \/ ReadDurationAttributes
    \/ ReadScheduleValue
    \/ ReadScheduleAttributes
    \/ ClockAdvance

SpecReads == InitReads /\ [][NextReads]_vars

---------------------------------------------------------------------------
(* The read contract *)

\* C11: after any sequence of reads the snapshot is the one that was
\* published, its periods in the order they were served, and a read
\* repeated at the same clock returns what it returned before.
C11_ReadsRepeatable ==
    /\ data = ProcessData(src.body, src.fetched).v
    /\ (arg # NoOut /\ arg.op = out.op /\ arg.now = out.now)
       => arg.res = out.res

\* the duration sensor read twice over a day listed out of start order
C11_Witness ==
    /\ arg.op = "duration.native_value"
    /\ out.op = "duration.native_value"
    /\ arg.now = out.now
    /\ out.now.minute = 400
    /\ data.forecasts # <<>>
    /\ Get(data.forecasts[1], "forecast", <<>>) =
           <<WirePeriod([s |-> 600, e |-> 24 * 60, p |-> High]),
             WirePeriod([s |-> 0, e |-> 600, p |-> Low])>>
    /\ out.res = Ok(PyInt(200))

\* the dict a read of extra_state_attributes has built when it returns is
\* the dict it returns
AttributesAreTheDictBuilt ==
    \A r \in { [w |-> PriceSensorExtraStateAttributesWrites(data, now),
                res |-> PriceSensorExtraStateAttributes(data, now)],
               [w |-> DurationSensorExtraStateAttributesWrites(data, now),
                res |-> DurationSensorExtraStateAttributes(data, now)],
               [w |-> ScheduleSensorExtraStateAttributesWrites(data),
                res |-> ScheduleSensorExtraStateAttributes(data)] } :
        (r.res.tag = "ok" /\ ~Falsy(data))
            => Let(AfterRead(data, r.w), LAMBDA mem :
                   mem.made[mem.env["attrs"].i] = r.res.v)

\* C12: no read of a sensor's value or attributes raises, whatever is
\* missing from the snapshot or malformed in an hour_range.
C12_ReadsNeverRaise ==
    out # NoOut => out.res.tag = "ok"

\* C13: the value of the duration sensor is None or max(0, merged end - now),
\* never negative, whatever the snapshot.
C13_DurationNeverNegative ==
    out.op = "duration.native_value"
    => /\ out.res.tag = "ok"
       /\ \/ out.res.v = None
          \/ /\ out.res.v.n >= 0
             /\ out.res.v.n =
                    Max(0, DurationSensorMergedEnd(data, out.now).v.n
                               - CurrentMinutes(out.now))

\* C16: the today_schedule and tomorrow_schedule a reader gets are the
\* snapshot's period lists for the date of the read and for the day after.
C16_SchedulesFollowClock ==
    (out.op = "schedule.extra_state_attributes" /\ out.res.tag = "ok")
    => /\ out.res.v.today_schedule =
              GetDaySchedule(data.forecasts, TodayStr(out.now))
       /\ out.res.v.tomorrow_schedule =
              GetDaySchedule(data.forecasts, TomorrowStr(out.now))

---------------------------------------------------------------------------
(* The price sensor and the duration sensor as Home Assistant polls them:
   two entities, each read in a step of its own, each taking dt_util.now()
   itself (sensor.py lines 127 and 270); between the two reads the minute
   may change and a refresh may publish another snapshot.  src is the
   schedule in minutes as in the reads of the merged duration, and what in
   the served body departs from one record per date with two-part ranges:
   today's record preceded by an empty record of the same date, or
   tomorrow's list ending with a range of three parts. *)

PollDefects == {"none", "second_record", "three_part"}

\* 10:00 - 12:00 - 14:00 at the price high
ThreePartPeriod ==
    [hour_range |-> StartLabel(600) \o RangeSep \o StartLabel(720)
                        \o RangeSep \o StartLabel(840),
     price |-> High]

PollDays ==
    {[kind |-> "days", today |-> ws, tomorrow |-> tm, after |-> NoTomorrow,
      defect |-> df] :
        ws \in AnyDay(MergeCuts, MergePrices, MaxMergeLen),
        tm \in {NoTomorrow,
                Tomorrow(<<[s |-> 0, e |-> 60, p |-> Low]>>, FALSE),
                Tomorrow(<<[s |-> 0, e |-> 24 * 60, p |-> High]>>, FALSE)},
        df \in PollDefects}

\* what a refresh between the two reads publishes: a body without windows
\* for today, or one window over the day
RefreshedDays ==
    {[kind |-> "days", today |-> ws, tomorrow |-> NoTomorrow,
      after |-> NoTomorrow, defect |-> "none"] :
        ws \in {<<>>, <<[s |-> 0, e |-> 24 * 60, p |-> High]>>}}

\* the decoded JSON body of the days
WirePolled(sc) ==
    [current_price |-> "low",
     forecasts |->
         (IF sc.defect = "second_record"
          THEN <<WireDay(Today, <<>>)>> ELSE <<>>)
         \o <<WireDay(Today, sc.today)>>
         \o (IF sc.tomorrow.present
             THEN <<[date |-> DateStr(Today + 1),
                     forecast |->
                         WireDay(Today + 1, sc.tomorrow.wins).forecast
                         \o (IF sc.defect = "three_part"
                             THEN <<ThreePartPeriod>> ELSE <<>>)]>>
             ELSE <<>>)]

\* the snapshots _process_data builds without raising are the ones published
InitPolls ==
    /\ src \in PollDays
    /\ now \in {[day |-> Today, minute |-> m] : m \in MergeMinutes}
    /\ src.defect = "three_part" => src.tomorrow.present
    /\ ProcessData(WirePolled(src), now).tag = "ok"
    /\ data = ProcessData(WirePolled(src), now).v
    /\ last_update_success = TRUE
    /\ out = NoOut
    /\ arg = NoOut
    /\ pc = "idle"
    /\ attempt = 0
    /\ calls = 0
    /\ hist = <<>>
    /\ sleeps = <<>>
    /\ ret = NoOut
    /\ retry_count = 0
    /\ extended_retry_count = 0
    /\ Installed

\* the result of a poll, stamped with its clock and with the number of
\* snapshots published before it
PollAt(op, res) == [op |-> op, now |-> now, snapshot |-> calls, res |-> res]

\* AMBCurrentPriceSensor.native_value, polled; arg keeps the poll before it
PollPrice ==
    /\ arg = NoOut
    /\ out' = PollAt("price.native_value", PriceSensorNativeValue(data, now))
    /\ arg' = out
    /\ UNCHANGED <<data, last_update_success, now, pc, attempt, calls, hist,
                   sleeps, ret, retry_count, extended_retry_count, src>>
    /\ UNCHANGED setup

\* AMBCurrentDurationSensor.native_value, polled
PollDuration ==
    /\ arg = NoOut
    /\ out' = PollAt("duration.native_value",
                      DurationSensorNativeValue(data, now))
    /\ arg' = out
    /\ UNCHANGED <<data, last_update_success, now, pc, attempt, calls, hist,
                   sleeps, ret, retry_count, extended_retry_count, src>>
    /\ UNCHANGED setup

\* the minute changes between the two polls
PollTick ==
    /\ out # NoOut
    /\ arg = NoOut
    /\ now.minute \in MergeMinutes
    /\ now' = Advance(now, 1)
    /\ UNCHANGED <<data, last_update_success, pc, attempt, calls, hist,
                   sleeps, ret, retry_count, extended_retry_count, src, arg,
                   out>>
    /\ UNCHANGED setup

\* a refresh ends between the two polls and publishes another snapshot
PollRefresh ==
    /\ out # NoOut
    /\ arg = NoOut
    /\ calls = 0
    /\ \E sc \in RefreshedDays :
          /\ src' = sc
          /\ data' = ProcessData(WirePolled(sc), now).v
    /\ calls' = calls + 1
    /\ UNCHANGED <<last_update_success, now, pc, attempt, hist, sleeps, ret,
                   retry_count, extended_retry_count, arg, out>>
    /\ UNCHANGED setup

NextPolls ==
    \/ PollPrice
    \/ PollDuration
    \/ PollTick
    \/ PollRefresh

SpecPolls == InitPolls /\ [][NextPolls]_vars

---------------------------------------------------------------------------
(* The agreement of the two sensors *)

\* the poll of the price sensor and the poll of the duration sensor among
\* the last two polls
PricePoll == IF out.op = "price.native_value" THEN out ELSE arg

DurationPoll == IF out.op = "duration.native_value" THEN out ELSE arg

\* the last two polls read the two sensors on one snapshot in one minute
PolledTogether ==
    /\ arg # NoOut
    /\ {arg.op, out.op} = {"price.native_value", "duration.native_value"}
    /\ arg.now = out.now
    /\ arg.snapshot = out.snapshot

\* C26: on any snapshot whose price labels are non-empty strings, at any
\* minute, the price sensor has no value exactly when the duration sensor
\* has none; over days without overlap both come from the one window that
\* holds now: the price is that window's, upper-cased, and the duration
\* runs from that window's end.
C26_PriceAndDurationAgree ==
    PolledTogether
        => /\ PricePoll.res.tag = "ok"
           /\ DurationPoll.res.tag = "ok"
           /\ (PricePoll.res.v = None) <=> (DurationPoll.res.v = None)
           /\ (WellFormedDays /\ Holding(Cur) # {})
                 => /\ PricePoll.res.v = PyStr(Upper(TheHolding(Cur).p))
                    /\ DurationPoll.res.v =
                           PyInt(MergedEndFrom(TheHolding(Cur)) - Cur)

\* C26 over the bodies with one record per date and two-part ranges only
C26_AgreeOnPlainBodies ==
    src.defect = "none" => C26_PriceAndDurationAgree

---------------------------------------------------------------------------
(* One read of extra_state_attributes, call by call, while the clock runs  *)
(* and the coordinator refreshes                                           *)

\* minutes the clock may run on after a snapshot is published
MaxTicks == 2

TickSchedules ==
    { [kind |-> "schedule",
       today |-> <<[s |-> 0, e |-> 600, p |-> Low],
                   [s |-> 600, e |-> 24 * 60, p |-> High]>>,
       tomorrow |-> Tomorrow(<<[s |-> 0, e |-> 600, p |-> Low]>>, FALSE)],
      [kind |-> "schedule",
       today |-> <<[s |-> 0, e |-> 600, p |-> Low],
                   [s |-> 600, e |-> 24 * 60, p |-> Low]>>,
       tomorrow |-> NoTomorrow],
      [kind |-> "schedule",
       today |-> <<[s |-> 0, e |-> 24 * 60, p |-> High]>>,
       tomorrow |-> Tomorrow(<<[s |-> 0, e |-> 600, p |-> High],
                               [s |-> 600, e |-> 24 * 60, p |-> Low]>>,
                             FALSE)] }

\* the minute before a window ends, the one before that, the last of the day
TickMinutes == {598, 599, 24 * 60 - 1}

InitAttributeRead ==
    /\ \E sc \in TickSchedules, m \in TickMinutes :
          src = [kind |-> "schedule", sc |-> sc,
                 fetched |-> [day |-> Today, minute |-> m]]
    /\ now = src.fetched
    /\ data = ProcessData(WireBody(src.sc), now).v
    /\ last_update_success = TRUE
    /\ out = NoOut
    /\ arg = None
    /\ pc = "idle"
    /\ attempt = 0
    /\ calls = 0
    /\ hist = <<>>
    /\ sleeps = <<>>
    /\ ret = NoOut
    /\ retry_count = 0
    /\ extended_retry_count = 0
    /\ Installed

\* what a step of a read leaves alone
ReadStepKeeps ==
    /\ UNCHANGED <<data, last_update_success, now, attempt, calls, hist,
                   sleeps, ret, retry_count, extended_retry_count, src>>
    /\ UNCHANGED setup

\* attrs = {"last_calculated": dt_util.now().isoformat()}
BeginPriceAttributes ==
    /\ pc = "idle"
    /\ pc' = "price.current_info"
    /\ arg' = [snapshot |-> data, n0 |-> now]
    /\ out' = NoOut
    /\ ReadStepKeeps

\* current_info = self._get_current_period_info()
PriceCurrentInfo ==
    /\ pc = "price.current_info"
    /\ pc' = "price.next_change"
    /\ arg' = [n1 |-> now] @@ arg
    /\ UNCHANGED out
    /\ ReadStepKeeps

\* next_change = self._find_next_change(); return attrs
PriceNextChange ==
    /\ pc = "price.next_change"
    /\ pc' = "idle"
    /\ out' = [op |-> "price.extra_state_attributes",
               res |-> PriceSensorExtraStateAttributesAt(data, arg.n0,
                                                         arg.n1, now),
               n2 |-> now] @@ arg
    /\ arg' = None
    /\ ReadStepKeeps

\* attrs = {"last_calculated": dt_util.now().isoformat()}
BeginDurationAttributes ==
    /\ pc = "idle"
    /\ pc' = "duration.remaining"
    /\ arg' = [snapshot |-> data, n0 |-> now]
    /\ out' = NoOut
    /\ ReadStepKeeps

\* remaining = self.native_value
DurationRemaining ==
    /\ pc = "duration.remaining"
    /\ pc' = "duration.merged_end_info"
    /\ arg' = [n1 |-> now] @@ arg
    /\ UNCHANGED out
    /\ ReadStepKeeps

\* merged_end_info = self._current_merged_end_info(); return attrs
DurationMergedEndInfo ==
    /\ pc = "duration.merged_end_info"
    /\ pc' = "idle"
    /\ out' = [op |-> "duration.extra_state_attributes",
               res |-> DurationSensorExtraStateAttributesAt(data, arg.n0,
                                                            arg.n1, now),
               n2 |-> now] @@ arg
    /\ arg' = None
    /\ ReadStepKeeps

\* minutes since the last snapshot was fetched
SinceFetch ==
    (now.day - src.fetched.day) * 24 * 60 + now.minute - src.fetched.minute

\* the wall clock passes a minute boundary, whatever the program is doing
Tick ==
    /\ SinceFetch < MaxTicks
    /\ now' = Advance(now, 1)
    /\ UNCHANGED <<data, last_update_success, pc, attempt, calls, hist,
                   sleeps, ret, retry_count, extended_retry_count, src, arg,
                   out>>
    /\ UNCHANGED setup

\* a refresh publishes another snapshot; the properties have no await, so
\* the event loop runs the coordinator only between reads
RefreshPublishes ==
    /\ pc = "idle"
    /\ calls < MaxRefreshes
    /\ calls' = calls + 1
    /\ \E sc \in TickSchedules :
          /\ sc # src.sc
          /\ src' = [kind |-> "schedule", sc |-> sc, fetched |-> now]
          /\ data' = ProcessData(WireBody(sc), now).v
    /\ last_update_success' = TRUE
    /\ UNCHANGED <<now, pc, attempt, hist, sleeps, ret, retry_count,
                   extended_retry_count, arg, out>>
    /\ UNCHANGED setup

NextAttributeRead ==
    \/ BeginPriceAttributes
    \/ PriceCurrentInfo
    \/ PriceNextChange
    \/ BeginDurationAttributes
    \/ DurationRemaining
    \/ DurationMergedEndInfo
    \/ Tick
    \/ RefreshPublishes

SpecAttributeRead == InitAttributeRead /\ [][NextAttributeRead]_vars

\* the derived values of an attribute dictionary
Derived(attrs) ==
    [k \in DOMAIN attrs \ {"t", "last_calculated", "last_updated"} |->
        attrs[k]]

\* every call of a read in progress sees the snapshot the read began with
ReadSeesOneSnapshot ==
    pc \in {"price.current_info", "price.next_change", "duration.remaining",
            "duration.merged_end_info"}
        => data = arg.snapshot

\* the derived values are those of the snapshot at one of the read's instants
ReadSeesOneInstant ==
    /\ out.op = "price.extra_state_attributes"
          => \E n \in {out.n0, out.n1, out.n2} :
                Derived(out.res.v)
                    = Derived(PriceSensorExtraStateAttributes(out.snapshot,
                                                              n).v)
    /\ out.op = "duration.extra_state_attributes"
          => \E n \in {out.n0, out.n1, out.n2} :
                Derived(out.res.v)
                    = Derived(DurationSensorExtraStateAttributes(out.snapshot,
                                                                 n).v)

\* C28: within one read of extra_state_attributes the derived values
\* (current_range and next_change; remaining_formatted and merged_until)
\* all come from one snapshot and one instant, though the minute may
\* advance and a refresh may complete while the read runs.
C28_AttributesFromOnePair == ReadSeesOneSnapshot /\ ReadSeesOneInstant

---------------------------------------------------------------------------
(* src/config_flow.py: validate_input and ConfigFlow.async_step_user *)

CurrentPriceText ==
    <<"c", "u", "r", "r", "e", "n", "t", "_", "p", "r", "i", "c", "e">>

ForecastsText == <<"f", "o", "r", "e", "c", "a", "s", "t", "s">>

KeyText(key) == IF key = "current_price" THEN CurrentPriceText ELSE ForecastsText

\* decoded JSON: a dict (a record), a list, a text, null, a number
JDict(r) == [t |-> "dict", d |-> r]

JList(items) == [t |-> "list", items |-> items]

\* `key in json_data`: a key of a dict, an element of a list, a part of a
\* text; TypeError for null and for a number
JsonContains(j, key) ==
    CASE j.t = "dict" -> Ok(key \in DOMAIN j.d)
      [] j.t = "list" ->
            Ok(\E i \in 1..Len(j.items) : j.items[i] = PyStr(KeyText(key)))
      [] j.t = "str" -> Ok(Contains(j.s, KeyText(key)))
      [] OTHER -> Raise("TypeError")

\* json_data[key]
JsonItem(j, key) ==
    IF j.t = "dict"
    THEN (IF key \in DOMAIN j.d THEN Ok(j.d[key]) ELSE Raise("KeyError"))
    ELSE Raise("TypeError")

\* the exceptions that are aiohttp.ClientError: the class and its subclasses
ClientErrors ==
    {"ClientError", "ClientResponseError", "ContentTypeError",
     "TooManyRedirects", "WSServerHandshakeError", "ClientHttpProxyError",
     "ClientConnectionError", "ClientOSError", "ClientConnectorError",
     "ClientProxyConnectionError", "ClientConnectorDNSError",
     "ClientSSLError", "ClientConnectorSSLError",
     "ClientConnectorCertificateError", "ServerConnectionError",
     "ServerDisconnectedError", "ServerTimeoutError",
     "ServerFingerprintMismatch", "ClientPayloadError", "InvalidURL"}

\* the try block of validate_input with every check of current_price left out
ValidateInputTryKeysOnly(resp) ==
    IF resp.kind # "response" THEN Raise(resp.kind)
    ELSE IF resp.status # 200 THEN Raise("CannotConnect")
    ELSE IF resp.json.kind # "value" THEN Raise(resp.json.kind)
    ELSE
    Let(JsonContains(resp.json.v, "current_price"), LAMBDA has_price :
    Let(JsonContains(resp.json.v, "forecasts"), LAMBDA has_forecasts :
        IF has_price.tag = "raise" THEN has_price
        ELSE IF ~has_price.v THEN Raise("InvalidData")
        ELSE IF has_forecasts.tag = "raise" THEN has_forecasts
        ELSE IF ~has_forecasts.v THEN Raise("InvalidData")
        ELSE Ok(None)))

\* the try block of validate_input: the request, the status, the decoding,
\* the two keys, the price level
ValidateInputTry(resp) ==
    IF resp.kind # "response" THEN Raise(resp.kind)
    ELSE IF resp.status # 200 THEN Raise("CannotConnect")
    ELSE IF resp.json.kind # "value" THEN Raise(resp.json.kind)
    ELSE
    Let(JsonContains(resp.json.v, "current_price"), LAMBDA has_price :
    Let(JsonContains(resp.json.v, "forecasts"), LAMBDA has_forecasts :
    Let(JsonItem(resp.json.v, "current_price"), LAMBDA current_price :
        IF has_price.tag = "raise" THEN has_price
        ELSE IF ~has_price.v THEN Raise("InvalidData")
        ELSE IF has_forecasts.tag = "raise" THEN has_forecasts
        ELSE IF ~has_forecasts.v THEN Raise("InvalidData")
        ELSE IF current_price.tag = "raise" THEN current_price
        ELSE IF current_price.v \notin {PyStr("low"), PyStr("high")}
        THEN Raise("InvalidData")
        ELSE Ok(None))))

\* validate_input with `except aiohttp.ClientError` alone
ValidateInputClientErrorOnly(user_input, resp) ==
    IF ~Has(user_input, CONF_API_URL) THEN Raise("KeyError")
    ELSE Let(ValidateInputTry(resp), LAMBDA r :
             IF r.tag = "ok" THEN Ok([title |-> "AMB Dynamic Energy"])
             ELSE IF r.exc \in ClientErrors THEN Raise("CannotConnect")
             ELSE r)

\* validate_input: data[CONF_API_URL] is read before the try; inside it
\* aiohttp.ClientError becomes CannotConnect and every other Exception,
\* the CannotConnect raised for the status included, becomes InvalidData;
\* what is no Exception (asyncio.CancelledError) passes
ValidateInput(user_input, resp) ==
    IF ~Has(user_input, CONF_API_URL) THEN Raise("KeyError")
    ELSE Let(ValidateInputTry(resp), LAMBDA r :
             IF r.tag = "ok" THEN Ok([title |-> "AMB Dynamic Energy"])
             ELSE IF r.exc \in ClientErrors THEN Raise("CannotConnect")
             ELSE IF r.exc \in BaseExceptions THEN r
             ELSE Raise("InvalidData"))

\* Binary floating point (IEEE 754 binary64) for hours * 3600.  TLC's
\* integers have 32 bits, so a significand is a sequence of limbs, least
\* significant first, LimbBase to the limb.
LimbBase == 2 ^ 13

\* x * k, 0 <= k < 2^17
RECURSIVE LimbsTimes(_, _, _)
LimbsTimes(x, k, carry) ==
    IF x = <<>>
    THEN (IF carry = 0 THEN <<>>
          ELSE <<carry % LimbBase>>
                   \o LimbsTimes(<<>>, k, carry \div LimbBase))
    ELSE <<(x[1] * k + carry) % LimbBase>>
             \o LimbsTimes(Tail(x), k, (x[1] * k + carry) \div LimbBase)

\* x \div d and x % d, 0 < d < 2^17
RECURSIVE LimbsDivMod(_, _)
LimbsDivMod(x, d) ==
    IF x = <<>> THEN [q |-> <<>>, r |-> 0]
    ELSE Let(LimbsDivMod(Tail(x), d), LAMBDA hi :
             [q |-> <<(hi.r * LimbBase + x[1]) \div d>> \o hi.q,
              r |-> (hi.r * LimbBase + x[1]) % d])

\* x * 2^s
RECURSIVE LimbsShiftLeft(_, _)
LimbsShiftLeft(x, s) ==
    IF s >= 13 THEN <<0>> \o LimbsShiftLeft(x, s - 13)
    ELSE LimbsTimes(x, 2 ^ s, 0)

\* x \div 2^s
RECURSIVE LimbsShiftRight(_, _)
LimbsShiftRight(x, s) ==
    IF x = <<>> THEN x
    ELSE IF s >= 13 THEN LimbsShiftRight(Tail(x), s - 13)
    ELSE LimbsDivMod(x, 2 ^ s).q

\* x + 1
RECURSIVE LimbsSucc(_)
LimbsSucc(x) ==
    IF x = <<>> THEN <<1>>
    ELSE IF x[1] + 1 < LimbBase THEN <<x[1] + 1>> \o Tail(x)
    ELSE <<0>> \o LimbsSucc(Tail(x))

\* the number of bits of x
RECURSIVE LimbsBits(_)
LimbsBits(x) ==
    IF x = <<>> THEN 0
    ELSE IF x[Len(x)] = 0 THEN LimbsBits(SubSeq(x, 1, Len(x) - 1))
    ELSE 13 * (Len(x) - 1)
             + (CHOOSE b \in 1..13 : 2 ^ (b - 1) <= x[Len(x)]
                                     /\ x[Len(x)] < 2 ^ b)

\* x as an integer, x < 2^31
RECURSIVE LimbsValue(_)
LimbsValue(x) ==
    IF x = <<>> THEN 0 ELSE x[1] + LimbBase * LimbsValue(Tail(x))

\* the quotient qr of a division by d rounded to nearest, ties to even
RoundHalfEven(qr, d) ==
    IF 2 * qr.r > d \/ (2 * qr.r = d /\ qr.q # <<>> /\ qr.q[1] % 2 = 1)
    THEN LimbsSucc(qr.q)
    ELSE qr.q

\* floor(log2(num / den)) for 0 < num, den < 2^14
BinaryExponent(num, den) ==
    CHOOSE e \in -16..16 :
        IF e >= 0
        THEN den * 2 ^ e <= num /\ num < den * 2 ^ (e + 1)
        ELSE den <= num * 2 ^ (0 - e) /\ num * 2 ^ (0 - e) < 2 * den

\* the float nearest num / den, as a significand of 53 bits (or 2^53) to
\* be scaled by 2^(e - 52)
FloatOf(num, den) ==
    Let(BinaryExponent(num, den), LAMBDA e :
        [e |-> e,
         m |-> RoundHalfEven(
                   LimbsDivMod(LimbsShiftLeft(<<num>>, 52 - e), den), den)])

\* x * k in floating point: the product rounded to the 53 bits of a
\* binary64 significand
FloatTimes(x, k) ==
    Let(LimbsTimes(x.m, k, 0), LAMBDA product :
    Let(IF LimbsBits(product) > 53
        THEN LimbsBits(product) - 53 ELSE 0, LAMBDA drop :
        [e |-> x.e + drop,
         m |-> RoundHalfEven(LimbsDivMod(product, 2 ^ drop), 2 ^ drop)]))

\* int(x) for a float x >= 0 below 2^31: the fraction is cut off
FloatTrunc(x) == LimbsValue(LimbsShiftRight(x.m, 52 - x.e))

\* int(hours * 3600): hours is the float nearest num/den, the product is
\* rounded to a float and int() cuts its fraction off, towards zero
HoursToSeconds(h) ==
    IF h.num = 0 THEN 0
    ELSE IF h.num < 0
    THEN 0 - FloatTrunc(FloatTimes(FloatOf(0 - h.num, h.den), 3600))
    ELSE FloatTrunc(FloatTimes(FloatOf(h.num, h.den), 3600))

ShowForm(step_id, errors) ==
    [type |-> "form", step_id |-> step_id, errors |-> errors]

CreateEntry(title, d) == [type |-> "create_entry", title |-> title, data |-> d]

\* ConfigFlow.async_step_user of src/config_flow.py: the conversion of the
\* interval stands inside the try, so the KeyError of a submission without
\* update_interval is taken by `except Exception`
AsyncStepUser(user_input, resp) ==
    IF user_input = None THEN ShowForm("user", <<>>)
    ELSE Let(ValidateInput(user_input, resp), LAMBDA info :
             IF info.tag = "ok"
             THEN (IF ~Has(user_input, CONF_UPDATE_INTERVAL)
                   THEN ShowForm("user", [base |-> "unknown"])
                   ELSE CreateEntry(info.v.title,
                            [user_input EXCEPT !.update_interval =
                                HoursToSeconds(user_input.update_interval)]))
             ELSE IF info.exc = "CannotConnect"
             THEN ShowForm("user", [base |-> "cannot_connect"])
             ELSE IF info.exc = "InvalidData"
             THEN ShowForm("user", [base |-> "invalid_data"])
             ELSE IF info.exc \in BaseExceptions
             THEN [type |-> "raise", exc |-> info.exc]
             ELSE ShowForm("user", [base |-> "unknown"]))

---------------------------------------------------------------------------
(* The set-up form as a state machine.  Home Assistant runs any number of
   user flows of the domain at once; async_step_user runs without
   suspension up to `await validate_input` (src/config_flow.py line 78),
   where other flows take their steps, and from the return of the check to
   its own return.  In this specification pc gives, for each flow, whether
   it stands at the await, and arg the user_input its step was called with;
   entry is the config entry, out the last step that returned, with its
   user_input and its result, src the response the check of that step
   got. *)

MaxFlows == 2

Flows == 1..MaxFlows

Statuses == {200, 404, 500}

OtherApiUrl == "http://amb.example/amb-data"

\* hours as fractions: the form accepts 0.5 to 24; 4.1 is no binary
\* fraction and 4.1 * 3600 falls short of 14760
Hours == { [num |-> 1, den |-> 2], [num |-> 41, den |-> 10] }

\* submissions: what the form's schema yields, and what a direct call of
\* the step can pass, a dict without one of the two keys
UserInputs ==
    [api_url : {DEFAULT_API_URL}, update_interval : Hours]
    \cup { [api_url |-> DEFAULT_API_URL],
           [update_interval |-> [num |-> 1, den |-> 2]] }

\* values of current_price in a body
PriceValues ==
    { PyStr("low"), PyStr("high"), PyStr("Low"), PyStr("HIGH"),
      PyStr("medium"), PyStr(""), None, PyInt(1) }

ForecastsValues == { JList(<<>>), None }

\* decoded bodies: dicts with and without each key, a list and a text that
\* hold the two names, null, a number
JsonValues ==
    { JDict([current_price |-> p, forecasts |-> f]) :
          p \in PriceValues, f \in ForecastsValues }
    \cup { JDict([current_price |-> p]) : p \in PriceValues }
    \cup { JDict([forecasts |-> f]) : f \in ForecastsValues }
    \cup { JDict(<<>>),
           JList(<<PyStr(CurrentPriceText), PyStr(ForecastsText)>>),
           JList(<<PyStr(ForecastsText)>>),
           PyStr(CurrentPriceText \o <<" ">> \o ForecastsText),
           PyStr(CurrentPriceText),
           None, PyInt(1) }

\* what response.json() does: the decoded value, or the error of a body
\* that is not JSON
JsonResults ==
    { [kind |-> "value", v |-> j] : j \in JsonValues }
    \cup { [kind |-> "ContentTypeError"], [kind |-> "JSONDecodeError"] }

\* what the request does: no connection, no answer in time, or a response
Responses ==
    { [kind |-> "ClientConnectorError"], [kind |-> "TimeoutError"] }
    \cup { [kind |-> "response", status |-> s, json |-> j] :
              s \in Statuses, j \in JsonResults }

NoResponse == [kind |-> "none"]

InitForm ==
    /\ entry = NoEntry
    /\ api_url = None
    /\ update_interval = None
    /\ building = None
    /\ out = NoOut
    /\ arg = [f \in Flows |-> None]
    /\ src = [kind |-> "form", resp |-> NoResponse]
    /\ ret = NoOut
    /\ data = None
    /\ last_update_success = TRUE
    /\ now = [day |-> Today, minute |-> 0]
    /\ pc = [f \in Flows |-> "idle"]
    /\ attempt = 0
    /\ calls = 0
    /\ hist = <<>>
    /\ sleeps = <<>>
    /\ retry_count = 0
    /\ extended_retry_count = 0

\* what a step of the form leaves alone
FormStepKeeps ==
    UNCHANGED <<data, last_update_success, now, attempt, calls, hist, sleeps,
                ret, retry_count, extended_retry_count, api_url,
                update_interval, building>>

\* the return of async_step_user in flow f, called with user_input, the
\* check answered by resp: the entry of a create_entry result is the entry
\* from then on
UserStepReturns(f, user_input, resp) ==
    /\ out' = [op |-> "async_step_user", flow |-> f,
               user_input |-> user_input,
               res |-> AsyncStepUser(user_input, resp)]
    /\ src' = [kind |-> "form", resp |-> resp]
    /\ entry' = IF out'.res.type = "create_entry"
                THEN Entry(out'.res.data, <<>>) ELSE entry
    /\ pc' = [pc EXCEPT ![f] = "idle"]
    /\ arg' = [arg EXCEPT ![f] = None]

\* the opening of the form in a flow: no user_input, nothing awaited
UserStepForm ==
    /\ \E f \in Flows :
          /\ pc[f] = "idle"
          /\ out' = [op |-> "async_step_user", flow |-> f,
                     user_input |-> None,
                     res |-> AsyncStepUser(None, NoResponse)]
    /\ src' = [kind |-> "form", resp |-> NoResponse]
    /\ UNCHANGED <<pc, arg, entry>>
    /\ FormStepKeeps

\* a submission in a flow, up to the first suspension: validate_input
\* reads data[CONF_API_URL] (line 38) before it awaits anything, so a
\* dict without the key ends the step at once; otherwise the step stands
\* at the await of the request
UserStepSubmit ==
    /\ \E f \in Flows, user_input \in UserInputs :
          /\ pc[f] = "idle"
          /\ IF Has(user_input, CONF_API_URL)
             THEN /\ pc' = [pc EXCEPT ![f] = "validate_input"]
                  /\ arg' = [arg EXCEPT ![f] = user_input]
                  /\ UNCHANGED <<out, src, entry>>
             ELSE UserStepReturns(f, user_input, NoResponse)
    /\ FormStepKeeps

\* the check of a flow returns, the endpoint having answered resp, and the
\* step runs to its end
UserStepResume ==
    /\ \E f \in Flows, resp \in Responses :
          /\ pc[f] = "validate_input"
          /\ UserStepReturns(f, arg[f], resp)
    /\ FormStepKeeps

NextForm ==
    \/ UserStepForm
    \/ UserStepSubmit
    \/ UserStepResume

SpecForm == InitForm /\ [][NextForm]_vars

---------------------------------------------------------------------------
(* The contract of the set-up form *)

\* the last step that returned was a submission of the set-up form
Submitted ==
    out # NoOut /\ out.op = "async_step_user" /\ out.user_input # None

\* the submission has both keys, as every submission through the form has
Complete(user_input) ==
    {CONF_API_URL, CONF_UPDATE_INTERVAL} \subseteq DOMAIN user_input

\* the check passes: a 200 response whose body is a dict with both keys
\* and a price level of exactly "low" or "high"
Acceptable(resp) ==
    /\ resp.kind = "response"
    /\ resp.status = 200
    /\ resp.json.kind = "value"
    /\ resp.json.v.t = "dict"
    /\ {"current_price", "forecasts"} \subseteq DOMAIN resp.json.v.d
    /\ resp.json.v.d.current_price \in {PyStr("low"), PyStr("high")}

\* this step is the return of the check of flow f and the end of its
\* submission
CheckReturns(f) == pc[f] = "validate_input" /\ pc'[f] = "idle"

\* C14: every failure of the connectivity check (the request was made for
\* the submitted URL and its response is not acceptable) re-shows the form
\* with the error "cannot_connect" or "invalid_data", never a third one,
\* and the step in which the failed check returns leaves the entry as it
\* is, whatever other flows did while the check was awaited
C14_TwoErrorCategories ==
    [][\A f \in Flows :
          (CheckReturns(f) /\ ~Acceptable(src'.resp))
              => /\ out'.flow = f
                 /\ out'.user_input = arg[f]
                 /\ out'.res.type = "form"
                 /\ out'.res.step_id = "user"
                 /\ out'.res.errors \in { [base |-> "cannot_connect"],
                                          [base |-> "invalid_data"] }
                 /\ entry' = entry]_vars

\* a timeout has re-shown the form of a flow while the other flow stands
\* at its own check and an entry, created meanwhile, is in place
C14_Witness ==
    /\ Submitted
    /\ src.resp.kind = "TimeoutError"
    /\ out.res.type = "form"
    /\ out.res.errors = [base |-> "invalid_data"]
    /\ entry.present
    /\ \E g \in Flows : g # out.flow /\ pc[g] = "validate_input"

\* C15: the return of a check ends in create_entry exactly when the
\* response has status 200 and a body with both keys and a price level of
\* exactly "low" or "high" (and the submission has both of its keys); the
\* entry is then the submitted URL with the interval in seconds; and the
\* entry changes in no other step of any flow
C15_AcceptsExactlyValid ==
    [][/\ \A f \in Flows :
             CheckReturns(f)
                 => /\ out'.flow = f
                    /\ out'.user_input = arg[f]
                    /\ out'.res.type = "create_entry"
                          <=> (Acceptable(src'.resp) /\ Complete(arg[f]))
                    /\ IF out'.res.type = "create_entry"
                       THEN entry' =
                                Entry([api_url |-> arg[f].api_url,
                                       update_interval |->
                                           HoursToSeconds(
                                               arg[f].update_interval)],
                                      <<>>)
                       ELSE entry' = entry
       /\ entry' # entry
              => \E f \in Flows :
                     /\ CheckReturns(f)
                     /\ Acceptable(src'.resp)
                     /\ out'.res.type = "create_entry"]_vars

\* an entry created from a valid body, the interval of 4.1 hours stored as
\* int(4.1 * 3600)
C15_Witness ==
    /\ Submitted
    /\ Acceptable(src.resp)
    /\ src.resp.json.v.d.current_price = PyStr("high")
    /\ out.res.type = "create_entry"
    /\ entry.present
    /\ out.user_input.update_interval = [num |-> 41, den |-> 10]
    /\ entry.data.update_interval = 14759

\* C25: a response with a status other than 200 re-shows the form with
\* the error "cannot_connect".
C25_BadStatusCannotConnect ==
    (/\ Submitted
     /\ Complete(out.user_input)
     /\ src.resp.kind = "response"
     /\ src.resp.status # 200)
        => /\ out.res.type = "form"
           /\ out.res.errors = [base |-> "cannot_connect"]

---------------------------------------------------------------------------
(* The flow of the integration, its options flow, and the entry's set-up,
   unload and reload *)

\* ConfigFlow.async_step_user of the integration: the default entry, no form
DefaultStepUser(user_input) == CreateEntry("AMB Dynamic Energy", DefaultEntry.data)

\* ConfigFlow.async_step_import: the user step, import_data left aside
AsyncStepImport(import_data) == DefaultStepUser(None)

\* OptionsFlowHandler.async_step_init: a submission becomes the entry's
\* options as it stands; the form reads `vol` before the function's own
\* import of it has bound the name
OptionsStepInit(e, user_input) ==
    IF user_input # None THEN Ok(CreateEntry("", user_input))
    ELSE Raise("UnboundLocalError")

\* the coordinator async_setup_entry builds from the entry
NewCoordinator(e) ==
    [api_url |-> CoordinatorApiUrl(e),
     update_interval |-> CoordinatorUpdateInterval(e)]

\* coordinator.async_config_entry_first_refresh(): a refresh that ends with
\* UpdateFailed makes the set-up raise ConfigEntryNotReady
ConfigEntryFirstRefresh(r) ==
    IF r.tag = "raise" /\ r.exc = "UpdateFailed"
    THEN Raise("ConfigEntryNotReady")
    ELSE r

---------------------------------------------------------------------------
(* The entry's life as a state machine.  entry is the config entry;
   api_url, update_interval and data are the coordinator stored in
   hass.data for it (None while none is stored); building is the coordinator
   a set-up has built and is refreshing, with the entry's options as they
   were when it was built; pc is the position of the set-up: at a call of
   _fetch_data, in a sleep, or at the forwarding to the platforms; out is
   the result of the last flow step and arg its argument; ret is what the
   last async_setup_entry, async_unload_entry or async_reload_entry
   returned or raised; src holds the function being run, the number of
   set-ups begun, the number of calls the endpoint refuses, and the options
   the stored coordinator was built under.  Set-up, unload and reload of an
   entry exclude one another; the flows run at any time. *)

MaxSetups == 2

\* the number of calls the endpoint refuses before it answers: none, some
\* of the fast tier, the whole fast tier, every call of both tiers
SetupPlans ==
    {0, 2, RETRY_ATTEMPTS, RETRY_ATTEMPTS + EXTENDED_RETRY_ATTEMPTS}

\* what async_step_import is handed
ImportData ==
    { <<>>, [api_url |-> OtherApiUrl, update_interval |-> 1800] }

\* submissions to the options step, the interval in hours: another URL
\* and interval than the default entry's, and the default entry's own
OptionInputs ==
    { [api_url |-> OtherApiUrl, update_interval |-> [num |-> 1, den |-> 1]],
      [api_url |-> DEFAULT_API_URL,
       update_interval |-> [num |-> 2, den |-> 1]] }

\* what the call number c of the first refresh does when the endpoint
\* refuses the first `plan` calls: refused, or answered in time or not
FirstRefreshOutcomes(plan, c) ==
    IF c <= plan THEN {[kind |-> "ClientError"]}
    ELSE {[kind |-> "ok", body |-> GoodBody], [kind |-> "TimeoutError"]}

\* a coordinator is stored for the entry: its snapshot is there
Stored == data # None

InitSetup ==
    /\ entry = NoEntry
    /\ api_url = None
    /\ update_interval = None
    /\ building = None
    /\ out = NoOut
    /\ arg = NoOut
    /\ src = [kind |-> "setup", op |-> "none", n |-> 0, plan |-> 0,
              built |-> NoOut]
    /\ ret = NoOut
    /\ data = None
    /\ last_update_success = TRUE
    /\ now = [day |-> Today, minute |-> 0]
    /\ pc = "idle"
    /\ attempt = 0
    /\ calls = 0
    /\ hist = <<>>
    /\ sleeps = <<>>
    /\ retry_count = 0
    /\ extended_retry_count = 0

\* the flow without a form: the entry of its create_entry result is the
\* entry from then on
DefaultUserStep ==
    /\ arg' = None
    /\ out' = [op |-> "default_step_user", res |-> DefaultStepUser(None)]
    /\ entry' = Entry(out'.res.data, <<>>)
    /\ UNCHANGED <<data, last_update_success, now, pc, attempt, calls, hist,
                   sleeps, ret, retry_count, extended_retry_count, src,
                   api_url, update_interval, building>>

\* the import: the same entry, whatever is imported
ImportStep ==
    /\ \E import_data \in ImportData :
          /\ arg' = import_data
          /\ out' = [op |-> "async_step_import",
                     res |-> AsyncStepImport(import_data)]
    /\ entry' = Entry(out'.res.data, <<>>)
    /\ UNCHANGED <<data, last_update_success, now, pc, attempt, calls, hist,
                   sleeps, ret, retry_count, extended_retry_count, src,
                   api_url, update_interval, building>>

\* the opening of the options form
OptionsStepForm ==
    /\ entry.present
    /\ arg' = None
    /\ out' = [op |-> "async_step_init", res |-> OptionsStepInit(entry, None)]
    /\ UNCHANGED <<data, last_update_success, now, pc, attempt, calls, hist,
                   sleeps, ret, retry_count, extended_retry_count, src,
                   entry, api_url, update_interval, building>>

\* a submission to the options step: its data become the entry's options
OptionsStepSubmit ==
    /\ entry.present
    /\ \E user_input \in OptionInputs :
          /\ arg' = user_input
          /\ out' = [op |-> "async_step_init",
                     res |-> OptionsStepInit(entry, user_input)]
    /\ entry' = [entry EXCEPT !.options = out'.res.v.data]
    /\ UNCHANGED <<data, last_update_success, now, pc, attempt, calls, hist,
                   sleeps, ret, retry_count, extended_retry_count, src,
                   api_url, update_interval, building>>

\* async_setup_entry up to the first call of _fetch_data: the coordinator
\* is built from the entry and its first refresh begun
SetupEntry ==
    /\ entry.present
    /\ pc = "idle"
    /\ src.n < MaxSetups
    /\ \E k \in SetupPlans :
          src' = [src EXCEPT !.op = "async_setup_entry", !.n = src.n + 1,
                             !.plan = k]
    /\ building' = [coordinator |-> NewCoordinator(entry),
                    options |-> entry.options]
    /\ pc' = "fast"
    /\ attempt' = 1
    /\ calls' = 0
    /\ hist' = <<>>
    /\ sleeps' = <<>>
    /\ UNCHANGED <<data, last_update_success, now, ret, retry_count,
                   extended_retry_count, out, arg, entry, api_url,
                   update_interval>>

\* the first refresh ends with r.  With data the lines after the await run
\* on: the coordinator is stored in hass.data, the device registered, and
\* the set-up stands at the forwarding to the platforms.  Without, the
\* set-up raises and the coordinator it built is dropped.
EndFirstRefresh(r) ==
    IF r.tag = "ok"
    THEN /\ api_url' = building.coordinator.api_url
         /\ update_interval' = building.coordinator.update_interval
         /\ data' = r.v
         /\ last_update_success' = TRUE
         /\ src' = [src EXCEPT !.built = building.options]
         /\ building' = None
         /\ pc' = "forward"
         /\ UNCHANGED ret
    ELSE /\ ret' = r
         /\ building' = None
         /\ pc' = "idle"
         /\ UNCHANGED <<api_url, update_interval, data,
                        last_update_success, src>>

\* one turn of the loop of _fetch_data_with_retry in the first refresh of
\* the coordinator being built, up to its sleep
SetupFastAttempt ==
    /\ pc = "fast"
    /\ \E o \in FirstRefreshOutcomes(src.plan, calls + 1) :
          /\ calls' = calls + 1
          /\ hist' = Append(hist, o)
          /\ IF o.kind = "ok"
             THEN /\ retry_count' = 0
                  /\ extended_retry_count' = 0
                  /\ EndFirstRefresh(ConfigEntryFirstRefresh(
                         AsyncUpdateData(ProcessData(o.body, now))))
                  /\ UNCHANGED attempt
             ELSE IF Caught(o.kind)
             THEN /\ IF LastFastAttempt(attempt)
                     THEN pc' = "extended" /\ attempt' = 1
                     ELSE pc' = "fast_sleep" /\ UNCHANGED attempt
                  /\ UNCHANGED <<ret, data, last_update_success, retry_count,
                                 extended_retry_count, src, api_url,
                                 update_interval, building>>
             ELSE /\ EndFirstRefresh(ConfigEntryFirstRefresh(
                         AsyncUpdateData(Raise(o.kind))))
                  /\ UNCHANGED <<attempt, retry_count, extended_retry_count>>
    /\ UNCHANGED <<now, sleeps, arg, out, entry>>

\* one turn of the loop of _extended_retry in the first refresh, up to its
\* sleep, and what follows the loop: the coordinator being built has no
\* data to fall back on
SetupExtendedAttempt ==
    /\ pc = "extended"
    /\ \E o \in FirstRefreshOutcomes(src.plan, calls + 1) :
          /\ calls' = calls + 1
          /\ hist' = Append(hist, o)
          /\ IF o.kind = "ok"
             THEN /\ extended_retry_count' = 0
                  /\ EndFirstRefresh(ConfigEntryFirstRefresh(
                         AsyncUpdateData(ProcessData(o.body, now))))
                  /\ UNCHANGED <<attempt, retry_count>>
             ELSE IF Caught(o.kind)
             THEN /\ IF LastExtendedAttempt(attempt)
                     THEN EndFirstRefresh(ConfigEntryFirstRefresh(
                              AsyncUpdateData(ExhaustedResult(None))))
                     ELSE /\ pc' = "extended_sleep"
                          /\ UNCHANGED <<ret, data, last_update_success, src,
                                         api_url, update_interval, building>>
                  /\ UNCHANGED <<attempt, retry_count, extended_retry_count>>
             ELSE /\ EndFirstRefresh(ConfigEntryFirstRefresh(
                         AsyncUpdateData(Raise(o.kind))))
                  /\ UNCHANGED <<attempt, retry_count, extended_retry_count>>
    /\ UNCHANGED <<now, sleeps, arg, out, entry>>

\* await hass.config_entries.async_forward_entry_setups(entry, PLATFORMS)
\* ends: the set-up returns True, or the exception of a platform leaves it
\* with the coordinator stored; async_reload_entry returns None
ForwardEntrySetups ==
    /\ pc = "forward"
    /\ \E forwarded \in {"ok", "RuntimeError"} :
          ret' = IF forwarded # "ok" THEN Raise(forwarded)
                 ELSE IF src.op = "async_reload_entry" THEN Ok(None)
                 ELSE Ok(PyBool(TRUE))
    /\ pc' = "idle"
    /\ UNCHANGED <<data, last_update_success, now, attempt, calls, hist,
                   sleeps, retry_count, extended_retry_count, src, out, arg,
                   entry, api_url, update_interval, building>>

\* async_unload_entry: the coordinator is dropped when the platforms unload
UnloadEntry ==
    /\ entry.present
    /\ Stored
    /\ pc = "idle"
    /\ \E unload_ok \in BOOLEAN :
          /\ ret' = Ok(PyBool(unload_ok))
          /\ IF unload_ok
             THEN /\ api_url' = None
                  /\ update_interval' = None
                  /\ data' = None
             ELSE UNCHANGED <<api_url, update_interval, data>>
    /\ UNCHANGED <<last_update_success, now, pc, attempt, calls, hist, sleeps,
                   retry_count, extended_retry_count, out, arg, src, entry,
                   building>>

\* async_reload_entry up to the first call of _fetch_data: the unload, its
\* result dropped, then the set-up, which builds a coordinator whether or
\* not the old one left hass.data
ReloadEntry ==
    /\ entry.present
    /\ Stored
    /\ pc = "idle"
    /\ src.n < MaxSetups
    /\ \E unload_ok \in BOOLEAN :
          IF unload_ok
          THEN /\ api_url' = None
               /\ update_interval' = None
               /\ data' = None
          ELSE UNCHANGED <<api_url, update_interval, data>>
    /\ \E k \in SetupPlans :
          src' = [src EXCEPT !.op = "async_reload_entry", !.n = src.n + 1,
                             !.plan = k]
    /\ building' = [coordinator |-> NewCoordinator(entry),
                    options |-> entry.options]
    /\ pc' = "fast"
    /\ attempt' = 1
    /\ calls' = 0
    /\ hist' = <<>>
    /\ sleeps' = <<>>
    /\ UNCHANGED <<last_update_success, now, ret, retry_count,
                   extended_retry_count, out, arg, entry>>

NextSetup ==
    \/ DefaultUserStep
    \/ ImportStep
    \/ OptionsStepForm
    \/ OptionsStepSubmit
    \/ SetupEntry
    \/ SetupFastAttempt
    \/ FastSleep
    \/ SetupExtendedAttempt
    \/ ExtendedSleep
    \/ ForwardEntrySetups
    \/ UnloadEntry
    \/ ReloadEntry

SpecSetup == InitSetup /\ [][NextSetup]_vars

---------------------------------------------------------------------------
(* The contract of the options flow *)

\* C18: once options have been submitted and the coordinator has been
\* built again, the coordinator has the submitted URL and interval
C18_OptionsReachCoordinator ==
    (/\ entry.present
     /\ entry.options # <<>>
     /\ Stored
     /\ src.built = entry.options)
        => /\ api_url = entry.options.api_url
           /\ update_interval = HoursToSeconds(entry.options.update_interval)

---------------------------------------------------------------------------
(* Direct calls of the three copies of _time_to_minutes *)

MaxHour == 24

MaxTokLen == 5

TokAlphabet == {"1", "2", ":", "a"}

\* tokens written from an hour and a minute
WrittenTokens ==
    {<<[kind |-> "written", h |-> h, m |-> m], PyStr(Tok(h, m, p))>> :
        h \in 0..MaxHour, m \in 0..59, p \in BOOLEAN}

\* every text over a small alphabet, whatever its form
AnyTokens ==
    {<<[kind |-> "any"], PyStr(s)>> : s \in SeqsUpTo(TokAlphabet, MaxTokLen)}

\* texts int() accepts or rejects for its own reasons, and values not text
OddTokens ==
    { <<[kind |-> "written", h |-> 7, m |-> 30], PyStr(<<" ", "7", ":", "3", "0">>)>>,
      <<[kind |-> "written", h |-> 0 - 1, m |-> 30], PyStr(<<"-", "1", ":", "3", "0">>)>>,
      <<[kind |-> "written", h |-> 10, m |-> 5], PyStr(<<"1", "_", "0", ":", "0", "5">>)>>,
      <<[kind |-> "malformed"], PyStr(<<"a", "b", "c">>)>>,
      <<[kind |-> "malformed"], PyStr(<<"1", "_", "_", "0", ":", "0", "5">>)>>,
      <<[kind |-> "malformed"], PyStr(<<"1", ":", "2", ":", "3">>)>>,
      <<[kind |-> "malformed"], None>>,
      <<[kind |-> "malformed"], PyInt(5)>> }

ParseInputs == WrittenTokens \cup AnyTokens \cup OddTokens

InitParse ==
    /\ \E p \in ParseInputs : src = p[1] /\ arg = p[2]
    /\ out = NoOut
    /\ data = None
    /\ last_update_success = FALSE
    /\ now = [day |-> 0, minute |-> 0]
    /\ pc = "idle"
    /\ attempt = 0
    /\ calls = 0
    /\ hist = <<>>
    /\ sleeps = <<>>
    /\ ret = NoOut
    /\ retry_count = 0
    /\ extended_retry_count = 0
    /\ Installed

CallUnchanged ==
    /\ UNCHANGED <<data, last_update_success, now, pc, attempt, calls, hist,
                   sleeps, ret, retry_count, extended_retry_count, src, arg>>
    /\ UNCHANGED setup

\* AMBDataUpdateCoordinator._time_to_minutes(arg)
CallCoordinatorTimeToMinutes ==
    /\ out = NoOut
    /\ out' = [op |-> "coordinator._time_to_minutes",
               res |-> CoordinatorTimeToMinutes(arg)]
    /\ CallUnchanged

\* AMBCurrentPriceSensor._time_to_minutes(arg)
CallPriceSensorTimeToMinutes ==
    /\ out = NoOut
    /\ out' = [op |-> "price_sensor._time_to_minutes",
               res |-> PriceSensorTimeToMinutes(arg)]
    /\ CallUnchanged

\* AMBCurrentDurationSensor._time_to_minutes(arg)
CallDurationSensorTimeToMinutes ==
    /\ out = NoOut
    /\ out' = [op |-> "duration_sensor._time_to_minutes",
               res |-> DurationSensorTimeToMinutes(arg)]
    /\ CallUnchanged

NextParse ==
    \/ CallCoordinatorTimeToMinutes
    \/ CallPriceSensorTimeToMinutes
    \/ CallDurationSensorTimeToMinutes

SpecParse == InitParse /\ [][NextParse]_vars

\* the text has the form <digits>:<digits>, read off its characters
TwoIntForm(s) ==
    /\ Cardinality({i \in 1..Len(s) : s[i] = ":"}) = 1
    /\ s[1] # ":"
    /\ s[Len(s)] # ":"
    /\ \A i \in 1..Len(s) : s[i] = ":" \/ IsDigit(s[i])

TimeCallOps == {"coordinator._time_to_minutes",
                "price_sensor._time_to_minutes",
                "duration_sensor._time_to_minutes"}

\* C10: every copy of _time_to_minutes returns hours*60+minutes for a token
\* written from an hour and a minute, returns 0 for a token that is not of
\* the two-integer form (text or not), and never raises.
C10_TimeToMinutesLenient ==
    out.op \in TimeCallOps =>
        /\ out.res.tag = "ok"
        /\ src.kind = "written" => out.res.v = src.h * 60 + src.m
        /\ src.kind = "malformed" => out.res.v = 0
        /\ (src.kind = "any" /\ ~TwoIntForm(arg.s)) => out.res.v = 0

\* a non-text value and a malformed text went through the coordinator's copy,
\* and a written token came back as a minute count that is not 0
C10_Witness ==
    /\ out.op = "coordinator._time_to_minutes"
    /\ arg = None
    /\ out.res = Ok(0)

===========================================================================
